---- MODULE Spec2Model ----
(***************************************************************************)
(* A model of the Agentic-Scraper pipeline:                                *)
(*   - the Evidence Gate  (informasi-scraper/app/extractors.py),           *)
(*   - the Discovery Crawler (jalur_pendaftaran-scraper/crawler.py),       *)
(*   - the resumable orchestrators (informasi-scraper/app/run_all.py and   *)
(*     run_info.py).                                                       *)
(* Text is modelled as a sequence of one-character strings, so that        *)
(* lower-casing, trimming, substring tests and the three regular           *)
(* expressions of the gate are computed character by character.            *)
(***************************************************************************)
EXTENDS Integers, Sequences, FiniteSets, TLC

\* ------------------------------------------------------------------------
\* State
\* ------------------------------------------------------------------------

VARIABLES
    \* Evidence Gate: one call of enforce_evidence_info
    g_pc,        \* "proposed" | "gated"
    g_info,      \* the proposed field set
    g_text,      \* evidence text
    g_links,      \* evidence links
    g_out,      \* the returned field set
    \* Discovery Crawler: one run of crawl_site
    c_pc,        \* "seeded" | "expanding" | "exhausted"
    start,       \* normalize_url(official_website)
    max_pages,
    visited,
    q,           \* the deque of (url, depth)
    candidates,
    best,        \* the returned list
    fetched,     \* the URLs handed to fetcher.fetch_with_menu, in call order
    discovered,  \* every link appended to out by extract_links_and_assets, in order
    fetch_depths,\* the depth of every page the BFS loop fetched, in call order
    \* Orchestrator: runs of run_all.py / run_info.py over one seed sheet
    r_pc,        \* the statement main() is at
    script,      \* "run_all" | "run_info"
    seeds,       \* the official_website column of the seed sheet
    seed_i,      \* i, the row the loop is at
    state_done,  \* state["done"], in memory
    state_file,  \* the checkpoint store on disk, None before the first dump
    rows,        \* the accumulated rows, in memory
    partial_file,\* IMPORT_FINAL_partial on disk
    final_file,  \* IMPORT_FINAL / import_info on disk
    cur,         \* the locals of the loop body
    run_no,      \* how many times main() was started
    \* history of the runs, read by the properties only
    ckpt_at_start, \* the checkpoint store as the current run loaded it
    decision,      \* per seed, this run: "none" | "skip" | "process"
    fetch_calls,   \* per seed, this run: bundle_text calls
    oracle_calls,  \* per seed, this run: Oracle calls
    completed,     \* per seed, all runs: how often "ok" was recorded
    killed_at,     \* r_pc of every interruption so far
    \* jalur run.py: main() and its process_one tasks
    j_main,        \* "gather" | "saved" | "crashed"
    concurrency,   \* args.concurrency
    sem,           \* the value of the asyncio.Semaphore
    j_pc,          \* per row: where its process_one task is
    j_cands,       \* per row: the kinds of the candidates crawl_site returned
    j_pos,         \* per row: how many candidates the loop has handled
    all_validated, \* the shared list of validation records
    \* run_all.py: one _fetch_with_retry call inside bundle_text
    f_pc,           \* "loop" | "returned" | "bundled"
    f_tries,        \* tries
    f_base_sleep,   \* base_sleep
    f_t,            \* t, the loop index
    f_pages,        \* what the site served at each fetch call, in call order
    f_results,      \* the FetchResult of each fetch call, in call order
    f_sleeps,       \* the time.sleep calls: <<after which call, seconds>>
    f_ret,          \* what _fetch_with_retry returned
    blocked_flag,  \* bundle_text's blocked_flag
    \* utils.py of both scrapers: URL canonicalisation and the same-site test
    url_pc,         \* "input" | "normalized" | "renormalized" | "compared" | "visited"
    url_a,          \* the seed or first URL
    url_b,          \* the candidate or second URL
    url_na,         \* url_a under each of the three canonicalisers
    url_nb,         \* url_b under each of the three canonicalisers
    url_na2,        \* url_na under the same canonicaliser once more
    url_same,       \* same_site of url_b against url_a, per scraper
    url_fetched,   \* the URLs fetched when both are queued, per scraper
    \* extract_assets.py: one call of extract_links_and_assets
    x_pc,           \* "page" | "extracted"
    x_page,         \* the markup: its anchors, its iframe/embed/object elements, its images, its other text
    x_out,         \* the returned list
    \* GeminiJSON.extract_json / extract_json_browse (informasi-scraper/app/gemini_client.py)
    gm_pc,           \* "loop" | "returned"
    gm_fn,           \* "extract_json" | "extract_json_browse"
    gm_models,       \* self.models, the ordered fallback list
    gm_max_retries,  \* max_retries
    gm_mi,           \* mi, the index of the current model (from 1)
    gm_attempt,      \* attempt, the number of the next attempt on the current model
    gm_calls,        \* the generate_content calls: <<model, attempt, outcome>>, in call order
    gm_sleeps,       \* the self._sleep calls: <<attempt, max_sleep>>, in call order
    gm_usage,        \* total_usage["total_tokens"]
    gm_ret,         \* the returned data: "none" | "empty" ({}) | "object"
    \* PlaywrightFetcher as main() of run_all.py uses it: one with-block around the seed loop
    b_pc,           \* "seed" | "fetching" | "exited"
    b_seed,         \* the index of the seed the loop is at
    b_contexts,     \* how many browsing contexts new_context() has created
    b_context,      \* self._context, the number of the context in use (0: closed)
    b_page,         \* the context of the page the running fetch opened (0: no page open)
    b_jar,          \* per context: the seeds whose pages stored cookies in it
    b_fetches,     \* every fetch so far: [seed, context, visible], in call order
    \* jalur run.py: the candidate loop of one process_one task, and the saves of main()
    v_pc,           \* "next" | "fetched" | "extract" | "done" | "saved"
    v_validate_only,  \* args.validate_only
    v_cands,        \* the kinds of the candidates crawl_site returned
    v_pos,          \* how many candidates the loop is through
    v_fr,           \* fr of the candidate at hand, with the text read from its content
    v_oracle,       \* the Oracle calls: [cand, purpose, raw, raised], in call order
    v_validated,    \* all_validated: [cand, kind, verdict], in append order
    v_items,        \* all_jalur_items: the candidate each item came from
    v_files,       \* the names of the artifacts written so far, in write order
    \* crawl_site on one site: what the fetcher serves for each page
    site,          \* [menu: the hrefs of the navigation bar, links: page -> the hrefs of its anchors]
    \* run_all.py: one bundle_text call
    bt_pc,          \* "loop" | "fallback" | "returned"
    bt_mode,        \* mode: "info" | "visi"
    bt_links,       \* per page of the site: what pick_candidates returns for its links
    bt_visited,     \* visited
    bt_queue,       \* queue
    bt_combined,    \* combined: [len: its length, kw: does it hold a visi keyword]
    bt_seed_len,    \* len(seed_text)
    bt_blocked,     \* blocked_flag
    bt_discovered,  \* discovered
    bt_add,         \* add, the counter of the fallback pass
    bt_next,        \* the index in discovered the fallback pass is at
    bt_fetched,     \* the URLs handed to _fetch_with_retry, in call order
    bt_skipped,    \* the popped URLs the loop skipped as already visited, in order
    \* jalur_pendaftaran-scraper/fetcher.py: the calls of the async PlaywrightFetcher
    td_pc,          \* where the running fetch call is, "idle" between two calls
    td_fn,          \* the method called: "fetch_html" | "fetch_with_menu"
    td_ctx,         \* ctx of the running call, 0 before new_context returned
    td_outcome,     \* what the running fetch_with_menu call is about to return
    td_open,        \* the browsing contexts that are open: [id, fn]
    td_made,        \* the number of contexts created so far
    td_returns     \* how every call ended: [fn, outcome, ctx, at: the step it ended in]


\* ------------------------------------------------------------------------
\* Characters and strings
\* ------------------------------------------------------------------------

Min(S) == CHOOSE x \in S : \A y \in S : x <= y

Max(S) == CHOOSE x \in S : \A y \in S : x >= y

LowerLetters == <<"a","b","c","d","e","f","g","h","i","j","k","l","m",
                  "n","o","p","q","r","s","t","u","v","w","x","y","z">>

UpperLetters == <<"A","B","C","D","E","F","G","H","I","J","K","L","M",
                  "N","O","P","Q","R","S","T","U","V","W","X","Y","Z">>

IsLower(c) == \E i \in 1..26 : LowerLetters[i] = c

IsUpper(c) == \E i \in 1..26 : UpperLetters[i] = c

IsLetter(c) == IsLower(c) \/ IsUpper(c)

IsDigit(c) == c \in {"0","1","2","3","4","5","6","7","8","9"}

\* Python's str.strip() and the regex class \s, on the characters used here.
IsSpace(c) == c \in {" ", "\n", "\t"}

\* str.lower() of one character.
LowerChar(c) ==
    IF IsUpper(c) THEN LowerLetters[CHOOSE i \in 1..26 : UpperLetters[i] = c]
    ELSE c

\* str.lower()
Lower(s) == [i \in 1..Len(s) |-> LowerChar(s[i])]

RECURSIVE LStrip(_)
LStrip(s) == IF s # <<>> /\ IsSpace(Head(s)) THEN LStrip(Tail(s)) ELSE s

RECURSIVE RStrip(_)
RStrip(s) ==
    IF s # <<>> /\ IsSpace(s[Len(s)]) THEN RStrip(SubSeq(s, 1, Len(s) - 1))
    ELSE s

\* str.strip()
Strip(s) == RStrip(LStrip(s))

\* s[i:].startswith(lit), i counted from 1
StartsWithAt(s, i, lit) ==
    /\ i + Len(lit) - 1 <= Len(s)
    /\ SubSeq(s, i, i + Len(lit) - 1) = lit

\* Python's  sub in s
Contains(sub, s) ==
    \E i \in 1..(Len(s) - Len(sub) + 1) : StartsWithAt(s, i, sub)

\* The first index j >= i at which s leaves the class Cls (Len(s)+1 if never).
RunEnd(s, i, Cls(_)) ==
    LET out == {j \in i..Len(s) : ~Cls(s[j])}
    IN  IF out = {} THEN Len(s) + 1 ELSE Min(out)

RECURSIVE Join(_, _)
\* sep.join(parts)
Join(parts, sep) ==
    IF parts = <<>> THEN <<>>
    ELSE IF Len(parts) = 1 THEN parts[1]
    ELSE parts[1] \o sep \o Join(Tail(parts), sep)

\* ------------------------------------------------------------------------
\* Evidence Gate: informasi-scraper/app/extractors.py
\* ------------------------------------------------------------------------

\* The "no evidence" sentinel "-".
Sentinel == <<"-">>

\* 'mailto:'
Lit_mailto == <<"m","a","i","l","t","o",":">>
\* 'http://'
Lit_http == <<"h","t","t","p",":","/","/">>
\* 'https://'
Lit_https == <<"h","t","t","p","s",":","/","/">>
\* 'wa.me/'
Lit_wa_me == <<"w","a",".","m","e","/">>
\* 'whatsapp.com/'
Lit_whatsapp_com == <<"w","h","a","t","s","a","p","p",".","c","o","m","/">>
\* 'api.whatsapp.com/send?phone='
Lit_api_whatsapp == <<"a","p","i",".","w","h","a","t","s","a","p","p",".","c","o","m","/","s","e","n","d","?","p","h","o","n","e","=">>
\* 'whatsapp'
Lit_whatsapp == <<"w","h","a","t","s","a","p","p">>
\* 'wa '
Lit_wa_space == <<"w","a"," ">>
\* 'instagram.com'
Dom_instagram == <<"i","n","s","t","a","g","r","a","m",".","c","o","m">>
\* 'facebook.com'
Dom_facebook == <<"f","a","c","e","b","o","o","k",".","c","o","m">>
\* 'fb.com'
Dom_fb == <<"f","b",".","c","o","m">>
\* 'twitter.com'
Dom_twitter == <<"t","w","i","t","t","e","r",".","c","o","m">>
\* 'x.com'
Dom_x == <<"x",".","c","o","m">>
\* 'youtube.com'
Dom_youtube == <<"y","o","u","t","u","b","e",".","c","o","m">>
\* 'youtu.be'
Dom_youtu_be == <<"y","o","u","t","u",".","b","e">>

\* [a-zA-Z0-9._%+\-]
IsEmailLocal(c) == IsLetter(c) \/ IsDigit(c) \/ c \in {".", "_", "%", "+", "-"}

\* [a-zA-Z0-9.\-]
IsEmailDomain(c) == IsLetter(c) \/ IsDigit(c) \/ c \in {".", "-"}

\* [\d\-\s\(\)]
IsPhoneBody(c) == IsDigit(c) \/ IsSpace(c) \/ c \in {"-", "(", ")"}

IsDigitOrPlus(c) == IsDigit(c) \/ c = "+"

\* RE_EMAIL matched at position i: the index of the last matched character,
\* or 0.  [local]+ is greedy and '@' is outside its class, so it takes the
\* whole run; [domain]+ gives back to the last '.' that two letters follow;
\* [a-zA-Z]{2,} then takes the whole run of letters.
MatchEmailAt(s, i) ==
    LET j == RunEnd(s, i, IsEmailLocal)
    IN  IF j = i \/ j > Len(s) \/ s[j] # "@" THEN 0
        ELSE LET k    == RunEnd(s, j + 1, IsEmailDomain)
                 dots == {p \in (j + 2)..(k - 1) :
                             /\ s[p] = "."
                             /\ p + 2 <= Len(s)
                             /\ IsLetter(s[p + 1])
                             /\ IsLetter(s[p + 2])}
             IN  IF dots = {} THEN 0
                 ELSE RunEnd(s, Max(dots) + 1, IsLetter) - 1

\* RE_EMAIL.fullmatch(u)
RE_EMAIL_fullmatch(u) == u # <<>> /\ MatchEmailAt(u, 1) = Len(u)

\* _find_first_regex(RE_EMAIL, blob): the leftmost match, "" if none.
FindFirstEmail(blob) ==
    LET starts == {i \in 1..Len(blob) : MatchEmailAt(blob, i) # 0}
    IN  IF starts = {} THEN <<>>
        ELSE SubSeq(blob, Min(starts), MatchEmailAt(blob, Min(starts)))

\* RE_PHONE matched at position i: the index of the last matched character,
\* or 0.  \+? \d [body]{7,} \d : the body run is greedy and gives back to
\* the last digit that leaves at least 7 body characters before it.
MatchPhoneAt(s, i) ==
    LET d == IF s[i] = "+" THEN i + 1 ELSE i
    IN  IF d > Len(s) \/ ~IsDigit(s[d]) THEN 0
        ELSE LET k    == RunEnd(s, d + 1, IsPhoneBody)
                 ends == {e \in (d + 8)..(k - 1) : IsDigit(s[e])}
             IN  IF ends = {} THEN 0 ELSE Max(ends)

RECURSIVE PhoneFindAllFrom(_, _)
PhoneFindAllFrom(s, i) ==
    IF i > Len(s) THEN <<>>
    ELSE LET e == MatchPhoneAt(s, i)
         IN  IF e # 0 THEN <<SubSeq(s, i, e)>> \o PhoneFindAllFrom(s, e + 1)
             ELSE PhoneFindAllFrom(s, i + 1)

\* RE_PHONE.findall(blob): the non-overlapping matches, left to right.
RE_PHONE_findall(blob) == PhoneFindAllFrom(blob, 1)

\* RE_WA_URL (re.I) matched at position i of s, ls being Lower(s): the index
\* of the last matched character, or 0.  The alternatives are tried in order.
MatchWaAt(s, ls, i) ==
    IF /\ StartsWithAt(ls, i, Lit_wa_me)
       /\ i + 6 <= Len(s)
       /\ IsDigit(s[i + 6])
    THEN RunEnd(s, i + 6, IsDigit) - 1
    ELSE IF StartsWithAt(ls, i, Lit_whatsapp_com)
    THEN i + Len(Lit_whatsapp_com) - 1
    ELSE IF /\ StartsWithAt(ls, i, Lit_api_whatsapp)
            /\ i + Len(Lit_api_whatsapp) <= Len(s)
            /\ IsDigit(s[i + Len(Lit_api_whatsapp)])
    THEN RunEnd(s, i + Len(Lit_api_whatsapp), IsDigit) - 1
    ELSE 0

\* _find_first_regex(RE_WA_URL, blob): the leftmost match, "" if none.
FindFirstWaUrl(blob) ==
    LET ls     == Lower(blob)
        starts == {i \in 1..Len(blob) : MatchWaAt(blob, ls, i) # 0}
    IN  IF starts = {} THEN <<>>
        ELSE SubSeq(blob, Min(starts), MatchWaAt(blob, ls, Min(starts)))

\* bool(RE_WA_URL.search(u))
RE_WA_URL_search(u) == FindFirstWaUrl(u) # <<>>

_digits_only(s) == SelectSeq(s, IsDigit)

_clean_phone(s) == SelectSeq(Strip(s), IsDigitOrPlus)

_in_blob(value, blob) ==
    /\ value # <<>>
    /\ value # Sentinel
    /\ Contains(Lower(Strip(value)), Lower(blob))

RECURSIVE _any_domain_in_links(_, _)
\* The first link that contains one of the domains as a substring, "" if none.
_any_domain_in_links(domains, links) ==
    IF links = <<>> THEN <<>>
    ELSE IF \E d \in domains : Contains(d, Lower(Head(links))) THEN Head(links)
    ELSE _any_domain_in_links(domains, Tail(links))

_sanitize_url(u0) ==
    LET u == Strip(u0)
    IN  IF u = <<>> \/ u = Sentinel THEN Sentinel
        ELSE IF StartsWithAt(u, 1, Lit_http) \/ StartsWithAt(u, 1, Lit_https)
        THEN u
        ELSE Sentinel

_sanitize_email(u0) ==
    LET u == Strip(u0)
    IN  IF u = <<>> \/ u = Sentinel THEN Sentinel
        ELSE LET v == IF StartsWithAt(Lower(u), 1, Lit_mailto)
                      THEN Strip(SubSeq(u, Len(Lit_mailto) + 1, Len(u)))
                      ELSE u
             IN  IF RE_EMAIL_fullmatch(v) THEN v ELSE Sentinel

_sanitize_phone(u0) ==
    LET u == _clean_phone(u0)
        n == Len(_digits_only(u))
    IN  IF 9 <= n /\ n <= 15 THEN u ELSE Sentinel

_sanitize_whatsapp(u0) ==
    LET u == Strip(u0)
    IN  IF u = <<>> \/ u = Sentinel THEN Sentinel
        ELSE IF RE_WA_URL_search(u) THEN u
        ELSE _sanitize_phone(u)

\* blob = text + "\n" + "\n".join(links)
EvidenceBlob(text, links) == text \o <<"\n">> \o Join(links, <<"\n">>)

\* EMAIL rule of enforce_evidence_info
enforce_email(proposed, blob) ==
    LET email == _sanitize_email(proposed)
    IN  IF email # Sentinel /\ ~_in_blob(email, blob)
        THEN LET found == FindFirstEmail(blob)
             IN  IF found # <<>> THEN found ELSE Sentinel
        ELSE email

\* the first token of RE_PHONE.findall(blob) as it stands in the blob
FirstValidPhone_raw(raws) == IF raws = <<>> THEN Sentinel ELSE Head(raws)

RECURSIVE FirstValidPhone(_)
\* The loop over RE_PHONE.findall(blob): the first token that passes
\* _sanitize_phone, in its sanitized form, "-" if none.
FirstValidPhone(raws) ==
    IF raws = <<>> THEN Sentinel
    ELSE IF _sanitize_phone(Head(raws)) # Sentinel
    THEN _sanitize_phone(Head(raws))
    ELSE FirstValidPhone(Tail(raws))

\* PHONE rule of enforce_evidence_info
enforce_phone(proposed, blob) ==
    LET phone == _sanitize_phone(proposed)
    IN  IF phone # Sentinel /\ ~_in_blob(_digits_only(phone), _digits_only(blob))
        THEN FirstValidPhone(RE_PHONE_findall(blob))
        ELSE phone

\* wa_has_evidence
wa_has_evidence(blob) ==
    \/ RE_WA_URL_search(blob)
    \/ Contains(Lit_whatsapp, Lower(blob))
    \/ Contains(Lit_wa_space, Lower(blob))

\* WHATSAPP rule of enforce_evidence_info
enforce_whatsapp(proposed, blob) ==
    LET wa == _sanitize_whatsapp(proposed)
    IN  IF wa # Sentinel /\ ~wa_has_evidence(blob) THEN Sentinel
        ELSE LET wa_url == FindFirstWaUrl(blob)
             IN  IF wa_url # <<>> THEN wa_url ELSE wa

\* social_domains
social_domains ==
    [instagram |-> {Dom_instagram},
     facebook  |-> {Dom_facebook, Dom_fb},
     twitter   |-> {Dom_twitter, Dom_x},
     youtube   |-> {Dom_youtube, Dom_youtu_be}]

\* SOCIALS rule of enforce_evidence_info, for one network
enforce_social(proposed, domains, blob, links) ==
    LET val0 == _sanitize_url(proposed)
        val1 == IF val0 # Sentinel /\ ~(\E d \in domains : Contains(d, Lower(val0)))
                THEN Sentinel ELSE val0
        val2 == IF val1 # Sentinel /\ ~_in_blob(val1, blob) THEN Sentinel ELSE val1
    IN  IF val2 = Sentinel
        THEN LET found == _any_domain_in_links(domains, links)
             IN  IF found # <<>> THEN found ELSE Sentinel
        ELSE val2

\* The final loop: a blank value becomes "-", every value is trimmed.
FinalTrim(v) == IF Strip(v) = <<>> THEN Sentinel ELSE Strip(v)

enforce_evidence_info(info, text, links) ==
    LET blob == EvidenceBlob(text, links)
    IN  [email     |-> FinalTrim(enforce_email(info.email, blob)),
         phone     |-> FinalTrim(enforce_phone(info.phone, blob)),
         whatsapp  |-> FinalTrim(enforce_whatsapp(info.whatsapp, blob)),
         instagram |-> FinalTrim(enforce_social(info.instagram, social_domains.instagram, blob, links)),
         facebook  |-> FinalTrim(enforce_social(info.facebook, social_domains.facebook, blob, links)),
         twitter   |-> FinalTrim(enforce_social(info.twitter, social_domains.twitter, blob, links)),
         youtube   |-> FinalTrim(enforce_social(info.youtube, social_domains.youtube, blob, links)),
         address   |-> FinalTrim(info.address)]

NoInfo ==
    [email |-> Sentinel, phone |-> Sentinel, whatsapp |-> Sentinel,
     instagram |-> Sentinel, facebook |-> Sentinel, twitter |-> Sentinel,
     youtube |-> Sentinel, address |-> Sentinel]

\* ------------------------------------------------------------------------
\* Inputs of the Evidence Gate: page texts, outbound-link lists and the
\* values an Oracle may propose.
\* ------------------------------------------------------------------------

\* 'info@kampus.id 0812-345-678'
Text_contact == <<"i","n","f","o","@","k","a","m","p","u","s",".","i","d"," ","0","8","1","2","-","3","4","5","-","6","7","8">>

\* 'whatsapp 0812345678'
Text_wa_word == <<"w","h","a","t","s","a","p","p"," ","0","8","1","2","3","4","5","6","7","8">>

\* 'mahasiswa baru'
Text_maba == <<"m","a","h","a","s","i","s","w","a"," ","b","a","r","u">>

\* 'wa.me/62812345678 Info@Kampus.id'
Text_deeplink == <<"w","a",".","m","e","/","6","2","8","1","2","3","4","5","6","7","8"," ","I","n","f","o","@","K","a","m","p","u","s",".","i","d">>

\* ''
Text_empty == <<>>

\* 'https://box.com/k'
Text_box == <<"h","t","t","p","s",":","/","/","b","o","x",".","c","o","m","/","k">>

\* '-'
Email_none == <<"-">>

\* 'info@kampus.id'
Email_seen == <<"i","n","f","o","@","k","a","m","p","u","s",".","i","d">>

\* 'fake@no.com'
Email_fake == <<"f","a","k","e","@","n","o",".","c","o","m">>

\* 'info at kampus'
Email_junk == <<"i","n","f","o"," ","a","t"," ","k","a","m","p","u","s">>

\* ' mailto:INFO@kampus.id'
Email_mailto == <<" ","m","a","i","l","t","o",":","I","N","F","O","@","k","a","m","p","u","s",".","i","d">>

\* '-'
Phone_none == <<"-">>

\* '0812345678'
Phone_seen == <<"0","8","1","2","3","4","5","6","7","8">>

\* '+62 999 888 777'
Phone_fake == <<"+","6","2"," ","9","9","9"," ","8","8","8"," ","7","7","7">>

\* '021 12345'
Phone_short == <<"0","2","1"," ","1","2","3","4","5">>

\* '-'
Wa_none == <<"-">>

\* '0812345678'
Wa_seen == <<"0","8","1","2","3","4","5","6","7","8">>

\* '0899999999'
Wa_fake == <<"0","8","9","9","9","9","9","9","9","9">>

\* 'https://wa.me/62899999999'
Wa_fake_link == <<"h","t","t","p","s",":","/","/","w","a",".","m","e","/","6","2","8","9","9","9","9","9","9","9","9">>

\* 'https://instagram.com/kampus'
Url_ig == <<"h","t","t","p","s",":","/","/","i","n","s","t","a","g","r","a","m",".","c","o","m","/","k","a","m","p","u","s">>

\* 'https://instagram.com/palsu'
Url_ig_fake == <<"h","t","t","p","s",":","/","/","i","n","s","t","a","g","r","a","m",".","c","o","m","/","p","a","l","s","u">>

\* 'https://x.com/kampus'
Url_x == <<"h","t","t","p","s",":","/","/","x",".","c","o","m","/","k","a","m","p","u","s">>

\* 'https://box.com/k'
Url_box == <<"h","t","t","p","s",":","/","/","b","o","x",".","c","o","m","/","k">>

\* 'http://fb.com/k'
Url_fb == <<"h","t","t","p",":","/","/","f","b",".","c","o","m","/","k">>

\* 'youtube.com/kampus'
Url_yt_bare == <<"y","o","u","t","u","b","e",".","c","o","m","/","k","a","m","p","u","s">>

\* []
Links_none == <<>>

\* ['https://instagram.com/kampus', 'https://x.com/kampus']
Links_social == <<<<"h","t","t","p","s",":","/","/","i","n","s","t","a","g","r","a","m",".","c","o","m","/","k","a","m","p","u","s">>, <<"h","t","t","p","s",":","/","/","x",".","c","o","m","/","k","a","m","p","u","s">>>>

\* ['https://dropbox.com/k']
Links_dropbox == <<<<"h","t","t","p","s",":","/","/","d","r","o","p","b","o","x",".","c","o","m","/","k">>>>

\* ['https://wa.me/62812345678', 'http://fb.com/k']
Links_wa_fb == <<<<"h","t","t","p","s",":","/","/","w","a",".","m","e","/","6","2","8","1","2","3","4","5","6","7","8">>, <<"h","t","t","p",":","/","/","f","b",".","c","o","m","/","k">>>>

\* ' Jl. 1 '
Address_padded == <<" ","J","l","."," ","1"," ">>

\* '  '
Address_blank == <<" "," ">>

Texts == {Text_contact, Text_wa_word, Text_maba, Text_deeplink, Text_empty, Text_box}

LinkLists == {Links_none, Links_social, Links_dropbox, Links_wa_fb}

EmailProposals == {Email_none, Email_seen, Email_fake, Email_junk, Email_mailto}

PhoneProposals == {Phone_none, Phone_seen, Phone_fake, Phone_short}

WhatsappProposals == {Wa_none, Wa_seen, Wa_fake, Wa_fake_link}

\* What the Oracle proposes for the four social networks.
SocialProposals ==
    {[instagram |-> Sentinel,    facebook |-> Sentinel, twitter |-> Sentinel, youtube |-> Sentinel],
     [instagram |-> Url_ig,      facebook |-> Url_fb,   twitter |-> Url_x,    youtube |-> Sentinel],
     [instagram |-> Url_ig_fake, facebook |-> Sentinel, twitter |-> Url_box,  youtube |-> Url_yt_bare],
     [instagram |-> Url_x,       facebook |-> Url_fb,   twitter |-> Url_ig,   youtube |-> Url_box]}

AddressProposals == {Address_padded, Address_blank}

\* The field sets normalize_info_keys can hand to the gate.  The gate reads
\* every field on its own, so the proposals vary one group of fields at a
\* time, plus one proposal that fills them all.
InfoProposals ==
    {[NoInfo EXCEPT !.email = e] : e \in EmailProposals}
    \cup {[NoInfo EXCEPT !.phone = p] : p \in PhoneProposals}
    \cup {[NoInfo EXCEPT !.whatsapp = w] : w \in WhatsappProposals}
    \cup {[NoInfo EXCEPT !.instagram = x.instagram, !.facebook = x.facebook,
                         !.twitter = x.twitter, !.youtube = x.youtube] :
            x \in SocialProposals}
    \cup {[NoInfo EXCEPT !.address = a] : a \in AddressProposals}
    \cup {[email |-> Email_fake, phone |-> Phone_fake, whatsapp |-> Wa_fake_link,
           instagram |-> Url_ig_fake, facebook |-> Url_fb, twitter |-> Url_box,
           youtube |-> Url_yt_bare, address |-> Address_padded]}

\* ------------------------------------------------------------------------
\* URL helpers: jalur_pendaftaran-scraper/utils.py
\* ------------------------------------------------------------------------

\* s.find(c) from position i, counted from 1; 0 if absent
FindChar(s, c, i) ==
    LET hits == {j \in i..Len(s) : s[j] = c}
    IN  IF hits = {} THEN 0 ELSE Min(hits)

\* s.endswith(suf)
EndsWith(s, suf) ==
    /\ Len(suf) <= Len(s)
    /\ SubSeq(s, Len(s) - Len(suf) + 1, Len(s)) = suf

IsSchemeChar(c) == IsLetter(c) \/ IsDigit(c) \/ c \in {"+", "-", "."}

\* s[:i-1] for the position i of a separator, all of s when there is none
Before(s, i) == IF i = 0 THEN s ELSE SubSeq(s, 1, i - 1)

\* s[i+1:] for the position i of a separator, empty when there is none
After(s, i) == IF i = 0 THEN <<>> ELSE SubSeq(s, i + 1, Len(s))

\* The position of the ":" that ends a URL scheme, 0 when url has no scheme.
SchemeEndAt(url, colon) ==
    IF /\ colon > 1
       /\ IsLetter(url[1])
       /\ \A j \in 1..(colon - 1) : IsSchemeChar(url[j])
    THEN colon ELSE 0

SchemeEnd(url) == SchemeEndAt(url, FindChar(url, ":", 1))

\* For r0 = "//netloc..." the position after the netloc, 0 when r0 has none.
NetlocEnd(r0) ==
    IF ~StartsWithAt(r0, 1, <<"/", "/">>) THEN 0
    ELSE LET delims == {j \in 3..Len(r0) : r0[j] \in {"/", "?", "#"}}
         IN  IF delims = {} THEN Len(r0) + 1 ELSE Min(delims)

SplitQuery(scheme, netloc, r2, fragment) ==
    [scheme   |-> scheme,
     netloc   |-> netloc,
     path     |-> Before(r2, FindChar(r2, "?", 1)),
     query    |-> After(r2, FindChar(r2, "?", 1)),
     fragment |-> fragment]

SplitFragment(scheme, netloc, r1) ==
    SplitQuery(scheme, netloc,
               Before(r1, FindChar(r1, "#", 1)), After(r1, FindChar(r1, "#", 1)))

SplitNetlocAt(scheme, r0, netEnd) ==
    SplitFragment(scheme,
                  IF netEnd = 0 THEN <<>> ELSE SubSeq(r0, 3, netEnd - 1),
                  IF netEnd = 0 THEN r0 ELSE SubSeq(r0, netEnd, Len(r0)))

SplitNetloc(scheme, r0) == SplitNetlocAt(scheme, r0, NetlocEnd(r0))

SplitSchemeAt(url, colon) ==
    SplitNetloc(IF colon = 0 THEN <<>> ELSE Lower(SubSeq(url, 1, colon - 1)),
                IF colon = 0 THEN url ELSE SubSeq(url, colon + 1, Len(url)))

\* urllib.parse.urlparse(url), as [scheme, netloc, path, query, fragment]
\* (the ;params of the last path segment stay in the path): the scheme is
\* split off first, then the netloc, the fragment and the query.
urlparse(url) == SplitSchemeAt(url, SchemeEnd(url))

\* the schemes in play of urllib.parse.uses_netloc
UsesNetloc == {<<"h","t","t","p">>, <<"h","t","t","p","s">>}

\* urllib.parse.urlunparse(p)
urlunparse(p) ==
    LET u0 == IF \/ p.netloc # <<>>
                 \/ p.scheme \in UsesNetloc /\ ~StartsWithAt(p.path, 1, <<"/", "/">>)
              THEN <<"/", "/">> \o p.netloc
                   \o (IF p.path # <<>> /\ p.path[1] # "/" THEN <<"/">> ELSE <<>>)
                   \o p.path
              ELSE p.path
        u1 == IF p.scheme # <<>> THEN p.scheme \o <<":">> \o u0 ELSE u0
        u2 == IF p.query # <<>> THEN u1 \o <<"?">> \o p.query ELSE u1
    IN  IF p.fragment # <<>> THEN u2 \o <<"#">> \o p.fragment ELSE u2

RECURSIVE SplitOn(_, _)
\* s.split(c)
SplitOn(s, c) ==
    LET i == FindChar(s, c, 1)
    IN  IF i = 0 THEN <<s>>
        ELSE <<SubSeq(s, 1, i - 1)>> \o SplitOn(SubSeq(s, i + 1, Len(s)), c)

\* One name=value field of a query string, as parse_qsl(keep_blank_values=True)
\* reads it.  Names and values here hold unreserved characters only, which
\* unquote and quote_plus leave as they are.
QueryPair(field) ==
    LET eq == FindChar(field, "=", 1)
    IN  IF eq = 0 THEN <<field, <<>>>>
        ELSE <<SubSeq(field, 1, eq - 1), SubSeq(field, eq + 1, Len(field))>>

IsNonEmpty(s) == s # <<>>

\* urllib.parse.parse_qsl(query, keep_blank_values=True)
parse_qsl(query) ==
    LET fields == SelectSeq(SplitOn(query, "&"), IsNonEmpty)
    IN  [i \in 1..Len(fields) |-> QueryPair(fields[i])]

\* urllib.parse.urlencode(pairs)
urlencode(pairs) ==
    Join([i \in 1..Len(pairs) |-> pairs[i][1] \o <<"=">> \o pairs[i][2]], <<"&">>)

\* 'utm_source' and the other tracking parameters of normalize_url
TrackingParams ==
    {<<"u","t","m","_","s","o","u","r","c","e">>,
     <<"u","t","m","_","m","e","d","i","u","m">>,
     <<"u","t","m","_","c","a","m","p","a","i","g","n">>,
     <<"u","t","m","_","t","e","r","m">>,
     <<"u","t","m","_","c","o","n","t","e","n","t">>,
     <<"f","b","c","l","i","d">>,
     <<"g","c","l","i","d">>}

IsKeptPair(pair) == Lower(pair[1]) \notin TrackingParams

\* the parsed URL without fragment and without tracking parameters, unparsed
WithoutTracking(p) ==
    urlunparse([p EXCEPT !.fragment = <<>>,
                         !.query = urlencode(SelectSeq(parse_qsl(p.query), IsKeptPair))])

NormalizeStripped(url) ==
    IF url = <<>> THEN url ELSE WithoutTracking(urlparse(url))

\* any two hosts taken for the same site
SameHost_any(uh, bh) == uh # <<>> /\ bh # <<>>

\* utils.normalize_url
normalize_url(url) == NormalizeStripped(Strip(url))

SameHost(uh, bh) ==
    IF uh = <<>> \/ bh = <<>> THEN FALSE
    ELSE uh = bh \/ EndsWith(uh, <<".">> \o bh)

\* utils.same_site
same_site(url, base) ==
    SameHost(Lower(urlparse(url).netloc), Lower(urlparse(base).netloc))

\* crawler.py ADMISSION_ENTRY_KEYWORDS
ADMISSION_ENTRY_KEYWORDS ==
    {<<"p","m","b">>,
     <<"p","p","m","b">>,
     <<"a","d","m","i","s","s","i","o","n">>,
     <<"p","e","n","e","r","i","m","a","a","n">>,
     <<"p","e","n","d","a","f","t","a","r","a","n"," ","m","a","h","a","s","i","s","w","a"," ","b","a","r","u">>}

\* crawler.py HARD_REJECT_KEYWORDS
HARD_REJECT_KEYWORDS ==
    {<<"d","a","y","a","-","t","a","m","p","u","n","g">>,
     <<"k","u","o","t","a">>,
     <<"k","a","p","a","s","i","t","a","s">>,
     <<"p","r","o","g","r","a","m","-","s","t","u","d","i">>,
     <<"p","r","o","d","i">>,
     <<"f","a","k","u","l","t","a","s">>,
     <<"m","b","k","m">>,
     <<"r","p","l">>,
     <<"a","l","u","m","n","i">>,
     <<"b","e","r","i","t","a">>,
     <<"n","e","w","s">>,
     <<"a","r","t","i","k","e","l">>,
     <<"b","i","a","y","a">>,
     <<"f","e","e">>,
     <<"u","k","t">>,
     <<"b","e","a","s","i","s","w","a">>,
     <<"s","c","h","o","l","a","r","s","h","i","p">>,
     <<"k","o","n","t","a","k">>,
     <<"c","o","n","t","a","c","t">>,
     <<"l","o","k","a","s","i">>,
     <<"l","o","c","a","t","i","o","n">>,
     <<"p","e","t","a","-","s","i","t","u","s">>,
     <<"b","a","y","a","r">>}

\* config.py NOISE_KEYWORDS
NOISE_KEYWORDS ==
    {<<"b","e","r","i","t","a">>,
     <<"n","e","w","s">>,
     <<"e","v","e","n","t">>,
     <<"a","g","e","n","d","a">>,
     <<"a","r","t","i","k","e","l">>,
     <<"p","r","e","s","s">>,
     <<"g","a","l","e","r","i">>,
     <<"g","a","l","l","e","r","y">>,
     <<"o","p","i","n","i">>,
     <<"b","l","o","g">>,
     <<"r","i","s","e","t">>,
     <<"p","e","n","e","l","i","t","i","a","n">>,
     <<"t","e","n","t","a","n","g"," ","k","a","m","i">>,
     <<"t","e","n","t","a","n","g">>,
     <<"a","b","o","u","t"," ","u","s">>,
     <<"b","i","a","y","a">>,
     <<"f","e","e">>,
     <<"u","k","t">>,
     <<"k","o","n","t","a","k">>,
     <<"c","o","n","t","a","c","t">>,
     <<"l","o","k","a","s","i">>,
     <<"l","o","c","a","t","i","o","n">>,
     <<"p","e","t","a"," ","s","i","t","u","s">>,
     <<"s","i","t","e","m","a","p">>,
     <<"k","a","r","i","r">>,
     <<"c","a","r","e","e","r">>,
     <<"a","l","u","m","n","i">>,
     <<"p","r","o","f","i","l">>,
     <<"p","r","o","f","i","l","e">>,
     <<"s","e","j","a","r","a","h">>,
     <<"h","i","s","t","o","r","y">>,
     <<"v","i","s","i">>,
     <<"m","i","s","i">>,
     <<"k","e","m","a","h","a","s","i","s","w","a","a","n">>,
     <<"b","e","a","s","i","s","w","a">>,
     <<"s","c","h","o","l","a","r","s","h","i","p">>,
     <<"d","o","w","n","l","o","a","d">>,
     <<"r","e","p","o","s","i","t","o","r","y">>,
     <<"p","e","r","p","u","s","t","a","k","a","a","n">>,
     <<"l","i","b","r","a","r","y">>}

\* config.py JALUR_WORD_RE: the alternatives between \b( and )\b, each a pair
\* <<a, b>> standing for  a \s* b  (b empty: the literal a).  The pattern is
\* compiled with re.VERBOSE, so the blanks and line breaks written inside it
\* are not part of it.
JALUR_WORD_ALTS ==
    {<<<<"j","a","l","u","r">>, <<"p","e","n","d","a","f","t","a","r","a","n">>>>,
     <<<<"j","a","l","u","r">>, <<"s","e","l","e","k","s","i">>>>,
     <<<<"j","a","l","u","r">>, <<"m","a","s","u","k">>>>,
     <<<<"p","e","n","e","r","i","m","a","a","n">>, <<"m","a","h","a","s","i","s","w","a">>>>,
     <<<<"r","p","l">>, <<>>>>,
     <<<<"j","a","d","w","a","l","s","e","l","e","k","s","i">>, <<>>>>,
     <<<<"t","a","h","a","p","a","n","s","e","l","e","k","s","i","m","a","h","a","s","i","s","w","a">>, <<"b","a","r","u">>>>,
     <<<<"p","m","b">>, <<>>>>,
     <<<<"s","p","m","b">>, <<>>>>,
     <<<<"s","n","b","p">>, <<>>>>,
     <<<<"s","n","b","t">>, <<>>>>,
     <<<<"s","n","m","p","t","n">>, <<>>>>,
     <<<<"s","b","m","p","t","n">>, <<>>>>,
     <<<<"m","a","n","d","i","r","i">>, <<>>>>,
     <<<<"p","r","e","s","t","a","s","i">>, <<>>>>,
     <<<<"a","f","i","r","m","a","s","i">>, <<>>>>,
     <<<<"k","e","r","j","a","s","a","m","a">>, <<>>>>,
     <<<<"r","e","g","u","l","e","r">>, <<>>>>,
     <<<<"i","n","t","e","r","n","a","s","i","o","n","a","l">>, <<>>>>}

\* 'jadwal'
Lit_jadwal == <<"j","a","d","w","a","l">>

\* 'tel:'
Lit_tel == <<"t","e","l",":">>

\* 'javascript:'
Lit_javascript == <<"j","a","v","a","s","c","r","i","p","t",":">>

\* '.pdf'
Ext_pdf == <<".","p","d","f">>

\* config.py IMG_EXT
IMG_EXT == {<<".","p","n","g">>, <<".","j","p","g">>, <<".","j","p","e","g">>, <<".","w","e","b","p">>}
\* ------------------------------------------------------------------------
\* Link extraction: jalur_pendaftaran-scraper/extract_assets.py
\* ------------------------------------------------------------------------

\* \w of the regex
IsWordChar(c) == IsLetter(c) \/ IsDigit(c) \/ c = "_"

\* One alternative of JALUR_WORD_RE matched at position i of the lower-cased
\* text ls, with the \b on both sides: the first literal, a run of blanks,
\* the second literal.
MatchJalurAltAt(ls, i, alt) ==
    /\ StartsWithAt(ls, i, alt[1])
    /\ (i = 1 \/ ~IsWordChar(ls[i - 1]))
    /\ LET j == IF alt[2] = <<>> THEN i + Len(alt[1])
                ELSE RunEnd(ls, i + Len(alt[1]), IsSpace)
           e == j + Len(alt[2]) - 1
       IN  /\ StartsWithAt(ls, j, alt[2])
           /\ (e = Len(ls) \/ ~IsWordChar(ls[e + 1]))

\* bool(JALUR_WORD_RE.search(text))
JALUR_WORD_RE_search(text) ==
    LET ls == Lower(text)
    IN  \E i \in 1..Len(ls) : \E alt \in JALUR_WORD_ALTS : MatchJalurAltAt(ls, i, alt)

_is_noise(text) == \E k \in NOISE_KEYWORDS : Contains(k, Lower(text))

\* kind of a link, by the extension of its URL
LinkKind(u) ==
    IF EndsWith(Lower(u), Ext_pdf) THEN "pdf"
    ELSE IF \E x \in IMG_EXT : EndsWith(Lower(u), x) THEN "image"
    ELSE "html"

\* The a[href] loop body for one anchor [href, text] whose href is absolute
\* (urljoin(page_url, href) = href): the tuple appended to out, as a list of
\* 0 or 1 entries.  The relevance score is not modelled: crawl_site copies it
\* into the candidate and nothing reads it.
ExtractLink(u, hint) ==
    IF _is_noise(hint) /\ ~JALUR_WORD_RE_search(hint) THEN <<>>
    ELSE <<[url |-> u, kind |-> LinkKind(u), hint |-> hint]>>

ExtractHref(href, label) ==
    IF \/ href = <<>>
       \/ StartsWithAt(href, 1, Lit_mailto)
       \/ StartsWithAt(href, 1, Lit_tel)
       \/ StartsWithAt(href, 1, Lit_javascript)
    THEN <<>>
    ELSE ExtractLink(normalize_url(href), Strip(label \o <<" ">> \o href))

extract_anchor(a) == ExtractHref(Strip(a.href), SubSeq(a.text, 1, Min({200, Len(a.text)})))

\* ------------------------------------------------------------------------
\* Discovery Crawler: jalur_pendaftaran-scraper/crawler.py
\* ------------------------------------------------------------------------

MAX_ADMISSION_DEPTH == 3

is_admission_entry(url) ==
    \E k \in ADMISSION_ENTRY_KEYWORDS : Contains(k, Lower(url))

\* a test that rejects nothing
hard_reject_nothing(url) == FALSE

hard_reject(url) ==
    \E k \in HARD_REJECT_KEYWORDS : Contains(k, Lower(url))

\* 'timeline'
Lit_timeline == <<"t","i","m","e","l","i","n","e">>

\* ["snbp", "snbt", "mandiri"]
TrackNames == {<<"s","n","b","p">>, <<"s","n","b","t">>, <<"m","a","n","d","i","r","i">>}

\* crawler._priority(url); no statement of crawler.py calls it
_priority(url) ==
    IF Contains(Lit_jadwal, Lower(url)) \/ Contains(Lit_timeline, Lower(url)) THEN 100
    ELSE IF \E k \in TrackNames : Contains(k, Lower(url)) THEN 80
    ELSE IF is_admission_entry(Lower(url)) THEN 60
    ELSE 10

Take(l, n) == SubSeq(l, 1, IF Len(l) < n THEN Len(l) ELSE n)

\* is_candidate of STEP 3: "jadwal" in text_blob or JALUR_WORD_RE.search(text_blob)
is_candidate(u, hint) ==
    LET text_blob == Lower(u \o <<" ">> \o hint)
    IN  Contains(Lit_jadwal, text_blob) \/ JALUR_WORD_RE_search(text_blob)

\* 'https://k.ac.id'
Site_home == <<"h","t","t","p","s",":","/","/","k",".","a","c",".","i","d">>

\* 'https://k.ac.id/pmb'
Site_pmb == <<"h","t","t","p","s",":","/","/","k",".","a","c",".","i","d","/","p","m","b">>

\* 'https://k.ac.id/pmb#top'
Href_pmb_frag == <<"h","t","t","p","s",":","/","/","k",".","a","c",".","i","d","/","p","m","b","#","t","o","p">>

\* 'https://k.ac.id/pmb?utm_source=ig'
Href_pmb_utm == <<"h","t","t","p","s",":","/","/","k",".","a","c",".","i","d","/","p","m","b","?","u","t","m","_","s","o","u","r","c","e","=","i","g">>

\* 'https://pmb.k.ac.id/jadwal'
Href_jadwal == <<"h","t","t","p","s",":","/","/","p","m","b",".","k",".","a","c",".","i","d","/","j","a","d","w","a","l">>

\* 'https://k.ac.id/pmb/biaya'
Href_biaya == <<"h","t","t","p","s",":","/","/","k",".","a","c",".","i","d","/","p","m","b","/","b","i","a","y","a">>

\* 'https://lain.com/pmb'
Href_offsite == <<"h","t","t","p","s",":","/","/","l","a","i","n",".","c","o","m","/","p","m","b">>

\* 'https://k.ac.id/pmb/jadwal.pdf'
Href_pdf == <<"h","t","t","p","s",":","/","/","k",".","a","c",".","i","d","/","p","m","b","/","j","a","d","w","a","l",".","p","d","f">>

\* 'https://k.ac.id/info'
Href_info == <<"h","t","t","p","s",":","/","/","k",".","a","c",".","i","d","/","i","n","f","o">>

\* 'https://k.ac.id/berita'
Href_berita == <<"h","t","t","p","s",":","/","/","k",".","a","c",".","i","d","/","b","e","r","i","t","a">>

\* '/pmb'
Href_relative == <<"/","p","m","b">>

\* 'Jadwal PMB'
Label_jadwal_pmb == <<"J","a","d","w","a","l"," ","P","M","B">>

\* 'Info'
Label_info == <<"I","n","f","o">>

\* 'Jalur SNBP'
Label_snbp == <<"J","a","l","u","r"," ","S","N","B","P">>

\* 'Berita'
Label_berita == <<"B","e","r","i","t","a">>

\* context_hint[:80] of the dedup key
HINT_KEY_LEN == 80

\* 'Jadwal ' and a rule, HINT_KEY_LEN characters in all
Label_rule == <<"J","a","d","w","a","l"," ">> \o [k \in 1..(HINT_KEY_LEN - 7) |-> "="]

\* two labels that agree on their first HINT_KEY_LEN characters
Label_wave_1 == Label_rule \o <<"1">>

Label_wave_2 == Label_rule \o <<"2">>

\* ------------------------------------------------------------------------
\* Orchestrators: informasi-scraper/app/run_all.py and run_info.py
\* ------------------------------------------------------------------------

\* run_all.norm_url: strip, drop the fragment (urldefrag), drop trailing "/".
RECURSIVE RStripSlash(_)
RStripSlash(s) ==
    IF s # <<>> /\ s[Len(s)] = "/" THEN RStripSlash(SubSeq(s, 1, Len(s) - 1))
    ELSE s

\* urllib.parse.urldefrag(url)[0]
urldefrag(url) ==
    IF FindChar(url, "#", 1) = 0 THEN url
    ELSE urlunparse([urlparse(url) EXCEPT !.fragment = <<>>])

norm_url(u) ==
    IF u = <<>> THEN <<>> ELSE RStripSlash(urldefrag(Strip(u)))

\* key = f"{i}:{website}"; i is the row index of the seed sheet.  run_all
\* builds it from norm_url(website_raw), run_info from the trimmed cell.
CheckpointKey(prog, i, website_raw) ==
    IF prog = "run_all" THEN <<i, norm_url(Strip(website_raw))>>
    ELSE <<i, Strip(website_raw)>>

\* dict.get(k): "none" stands for None
DictGet(d, k) == IF k \in DOMAIN d THEN d[k] ELSE "none"

\* d[k] = v
DictPut(d, k, v) == [x \in (DOMAIN d) \cup {k} |-> IF x = k THEN v ELSE d[x]]

EmptyDict == [x \in {} |-> "none"]

\* a skip test that takes any recorded status for done
IsSkipped_any_status(done, key) == DictGet(done, key) # "none"

\* if state["done"].get(key) == "ok": continue
IsSkipped(done, key) == DictGet(done, key) = "ok"

\* The Oracle's failure, the object without keys: d.get(k) finds nothing.
NoData ==
    [email |-> <<>>, phone |-> <<>>, whatsapp |-> <<>>, instagram |-> <<>>,
     facebook |-> <<>>, twitter |-> <<>>, youtube |-> <<>>, address |-> <<>>]

\* normalize_info_keys(d): a missing or blank value becomes "-", every value
\* is trimmed.
normalize_info_keys(d) ==
         [email     |-> FinalTrim(d.email),
          phone     |-> FinalTrim(d.phone),
          whatsapp  |-> FinalTrim(d.whatsapp),
          instagram |-> FinalTrim(d.instagram),
          facebook  |-> FinalTrim(d.facebook),
          twitter   |-> FinalTrim(d.twitter),
          youtube   |-> FinalTrim(d.youtube),
          address   |-> FinalTrim(d.address)]

\* use_browse_info = (len((text_info or "").strip()) < 900) or blocked_info
BROWSE_MIN_INFO_TEXT == 900

use_browse_info(text_info, blocked_info) ==
    Len(Strip(text_info)) < BROWSE_MIN_INFO_TEXT \/ blocked_info
\* ------------------------------------------------------------------------
\* Bounds and inputs
\* ------------------------------------------------------------------------

\* max_pages ranges over 1..MaxPagesBound
MaxPagesBound == 2

\* the most anchors one fetched page holds
MaxFound == 2

\* the most links extract_menu_links returns
MaxMenu == 4

\* the number of rows of the seed sheet
NumSeeds == 2

\* the number of times the orchestrator is started on the same sheet
MaxRuns == 2

\* The sequences over S of length at most n
SeqsUpTo(S, n) == UNION {[1..k -> S] : k \in 0..n}

\* ... without repeated elements
DistinctSeqsUpTo(S, n) ==
    {s \in SeqsUpTo(S, n) : \A a, b \in 1..Len(s) : a # b => s[a] # s[b]}

Range(s) == {s[k] : k \in DOMAIN s}

\* official_website of the crawled campus
Websites == {Site_home, Site_pmb}

\* hrefs a navigation bar may hold (extract_menu_links returns them raw)
MenuHrefs ==
    {Site_pmb, Href_pmb_frag, Href_jadwal, Href_biaya, Href_offsite}

\* anchors a fetched page may hold
Anchors ==
    {[href |-> Site_pmb,      text |-> Label_jadwal_pmb],
     [href |-> Href_jadwal,   text |-> Label_info],
     [href |-> Href_offsite,  text |-> Label_jadwal_pmb],
     [href |-> Href_pdf,      text |-> Label_jadwal_pmb],
     [href |-> Href_pdf,      text |-> Label_snbp],
     [href |-> Href_biaya,    text |-> Label_snbp],
     [href |-> Href_pdf,      text |-> Label_wave_1],
     [href |-> Href_pdf,      text |-> Label_wave_2],
     [href |-> Href_info,     text |-> Label_info],
     [href |-> Href_berita,   text |-> Label_berita]}

\* 'iframe'
Lit_iframe == <<"i","f","r","a","m","e">>

\* 'embed'
Lit_embed == <<"e","m","b","e","d">>

\* 'object'
Lit_object == <<"o","b","j","e","c","t">>

\* 'src'
Lit_src == <<"s","r","c">>

\* 'data'
Lit_data == <<"d","a","t","a">>

\* 'img'
Lit_img == <<"i","m","g">>

\* 'https://k.ac.id/berita/video'
Src_video == <<"h","t","t","p","s",":","/","/","k",".","a","c",".","i","d","/","b","e","r","i","t","a","/","v","i","d","e","o">>

\* 'https://k.ac.id/pmb/brosur.pdf'
Src_brosur == <<"h","t","t","p","s",":","/","/","k",".","a","c",".","i","d","/","p","m","b","/","b","r","o","s","u","r",".","p","d","f">>

\* 'https://k.ac.id/galeri.pdf'
Src_galeri_pdf == <<"h","t","t","p","s",":","/","/","k",".","a","c",".","i","d","/","g","a","l","e","r","i",".","p","d","f">>

\* 'https://k.ac.id/img/galeri.jpg'
Src_galeri_jpg == <<"h","t","t","p","s",":","/","/","k",".","a","c",".","i","d","/","i","m","g","/","g","a","l","e","r","i",".","j","p","g">>

\* 'https://k.ac.id/img/a.gif'
Src_gif == <<"h","t","t","p","s",":","/","/","k",".","a","c",".","i","d","/","i","m","g","/","a",".","g","i","f">>

\* 'https://k.ac.id/img/b.png'
Src_png == <<"h","t","t","p","s",":","/","/","k",".","a","c",".","i","d","/","i","m","g","/","b",".","p","n","g">>

\* 'https://k.ac.id/img/b.png 2x, c.png'
Srcset_png == <<"h","t","t","p","s",":","/","/","k",".","a","c",".","i","d","/","i","m","g","/","b",".","p","n","g"," ","2","x",","," ","c",".","p","n","g">>

\* 'Galeri'
Alt_galeri == <<"G","a","l","e","r","i">>

\* 'Brosur PMB'
Alt_brosur == <<"B","r","o","s","u","r"," ","P","M","B">>

\* 'Halo'
Text_halo == <<"H","a","l","o">>

\* 'Jalur SNBP'
Text_jalur == <<"J","a","l","u","r"," ","S","N","B","P">>

\* [("iframe", "src"), ("embed", "src"), ("object", "data")]
EmbedTags == <<<<Lit_iframe, Lit_src>>, <<Lit_embed, Lit_src>>, <<Lit_object, Lit_data>>>>

\* iframe, embed and object elements a page may hold
Embeds ==
    {[tag |-> Lit_iframe, src |-> Src_video],
     [tag |-> Lit_embed,  src |-> Src_galeri_pdf],
     [tag |-> Lit_object, src |-> Src_brosur]}

\* img elements a page may hold
Imgs ==
    {[src |-> Src_galeri_jpg, srcset |-> <<>>,       alt |-> Alt_galeri, title |-> <<>>],
     [src |-> Src_gif,        srcset |-> Srcset_png, alt |-> Alt_brosur, title |-> <<>>],
     [src |-> <<>>,           srcset |-> Srcset_png, alt |-> <<>>,       title |-> Alt_galeri]}

\* text of a page outside its anchors
BodyTexts == {Text_halo, Text_jalur}

\* the most anchors, embedded documents and images of an extracted page
MaxPageAnchors == 1

MaxEmbeds == 2

MaxImgs == 1

\* ------------------------------------------------------------------------
\* The string functions above, tabulated over the URLs and anchors in play
\* ------------------------------------------------------------------------

\* TLC applies [x \in S |-> e] by evaluating e at every application; merged
\* with itself the function becomes a table that is built once.
Tabulated(f) == f @@ f

Starts == {normalize_url(w) : w \in Websites}

\* 'https://k.ac.id/pmb/a'
Page_a == <<"h","t","t","p","s",":","/","/","k",".","a","c",".","i","d","/","p","m","b","/","a">>

\* 'https://k.ac.id/pmb/b'
Page_b == <<"h","t","t","p","s",":","/","/","k",".","a","c",".","i","d","/","p","m","b","/","b">>

\* 'https://k.ac.id/pmb/c'
Page_c == <<"h","t","t","p","s",":","/","/","k",".","a","c",".","i","d","/","p","m","b","/","c">>

\* 'https://k.ac.id/pmb/d'
Page_d == <<"h","t","t","p","s",":","/","/","k",".","a","c",".","i","d","/","p","m","b","/","d">>

\* 'https://k.ac.id/pmb/e'
Page_e == <<"h","t","t","p","s",":","/","/","k",".","a","c",".","i","d","/","p","m","b","/","e">>

\* The pages of a crawled site, the entry page first: every one is on the
\* site and none is hard-rejected.
SitePageSeq == <<Site_pmb, Page_a, Page_b, Page_c, Page_d, Page_e>>

\* What a page of a crawled site may link to: the pages, a page of another
\* site and a hard-rejected page.
SiteTargets == Range(SitePageSeq) \cup {Href_offsite, Href_berita}

\* the anchor a page holds for a link to u
SiteAnchor(u) == [href |-> u, text |-> Label_info]

SiteAnchors == {SiteAnchor(u) : u \in SiteTargets}

Urls ==
    LET raw == Websites \cup MenuHrefs \cup {a.href : a \in Anchors} \cup SiteTargets
               \cup {e.src : e \in Embeds} \cup {Src_galeri_jpg, Src_gif, Src_png}
    IN  raw \cup {normalize_url(u) : u \in raw}

normalize_url_of == Tabulated([u \in Urls |-> normalize_url(u)])

same_site_of == Tabulated([u \in Urls, base \in Starts |-> same_site(u, base)])

is_admission_entry_of == Tabulated([u \in Urls |-> is_admission_entry(u)])

hard_reject_of == Tabulated([u \in Urls |-> hard_reject(u)])

_priority_of == Tabulated([u \in Urls |-> _priority(u)])

extract_anchor_of == Tabulated([a \in Anchors \cup SiteAnchors |-> extract_anchor(a)])

\* the hints of the links the anchors in play yield
Hints == {l.hint : l \in UNION {Range(extract_anchor_of[a]) : a \in Anchors \cup SiteAnchors}}

is_candidate_of == Tabulated([u \in Urls, hint \in Hints |-> is_candidate(u, hint)])

\* ------------------------------------------------------------------------
\* extract_links_and_assets and the steps of crawl_site
\* ------------------------------------------------------------------------

RECURSIVE DedupLinks(_, _)
\* The "normalize + dedup" loop: the first entry of every (url, kind) is kept.
DedupLinks(found, seen) ==
    IF found = <<>> THEN <<>>
    ELSE LET u2  == normalize_url_of[Head(found).url]
             key == <<u2, Head(found).kind>>
         IN  IF key \in seen THEN DedupLinks(Tail(found), seen)
             ELSE <<[Head(found) EXCEPT !.url = u2]>>
                  \o DedupLinks(Tail(found), seen \cup {key})

RECURSIVE ExtractAll(_)
ExtractAll(anchors) ==
    IF anchors = <<>> THEN <<>>
    ELSE extract_anchor_of[Head(anchors)] \o ExtractAll(Tail(anchors))

\* extract_links_and_assets(page_url, html) for a page whose markup holds the
\* given anchors, in document order.
extract_links_and_assets(anchors) == DedupLinks(ExtractAll(anchors), {})

\* roots without the two tests: every menu link is a root
EntryRoots_unfiltered(menu_links, start_url) ==
    [k \in 1..Len(menu_links) |-> normalize_url_of[menu_links[k]]]

\* The iframe/embed/object loop body for one element: no noise test here.
ExtractEmbed(tagattr, el) ==
    IF Strip(el.src) = <<>> THEN <<>>
    ELSE <<[url  |-> normalize_url_of[Strip(el.src)],
            kind |-> IF EndsWith(Lower(normalize_url_of[Strip(el.src)]), Ext_pdf)
                     THEN "pdf" ELSE "html",
            hint |-> tagattr[1] \o <<":">> \o tagattr[2] \o <<" ">> \o Strip(el.src)]>>

RECURSIVE ExtractEmbedsOf(_, _)
\* for el in soup.find_all(tag)
ExtractEmbedsOf(tagattr, els) ==
    IF els = <<>> THEN <<>>
    ELSE (IF Head(els).tag = tagattr[1] THEN ExtractEmbed(tagattr, Head(els)) ELSE <<>>)
         \o ExtractEmbedsOf(tagattr, Tail(els))

\* for tag, attr in [...]: the iframes first, then the embeds, then the objects
ExtractEmbeds(els) ==
    ExtractEmbedsOf(EmbedTags[1], els) \o ExtractEmbedsOf(EmbedTags[2], els)
        \o ExtractEmbedsOf(EmbedTags[3], els)

\* srcset.split(",")[0].strip().split(" ")[0].strip()
FirstOfSrcset(srcset) == Strip(SplitOn(Strip(SplitOn(srcset, ",")[1]), " ")[1])

\* cand: src, then the first URL of srcset
ImageSources(img) ==
    (IF Strip(img.src) # <<>> THEN <<Strip(img.src)>> ELSE <<>>)
    \o (IF Strip(img.srcset) # <<>> /\ FirstOfSrcset(Strip(img.srcset)) # <<>>
        THEN <<FirstOfSrcset(Strip(img.srcset))>> ELSE <<>>)

\* hint = f"img {alt} {title}".strip()
ImageHint(img) ==
    Strip(Lit_img \o <<" ">> \o Strip(img.alt) \o <<" ">> \o Strip(img.title))

RECURSIVE ImageEntries(_, _)
\* for c in cand: only sources with an image extension are kept
ImageEntries(cand, hint) ==
    IF cand = <<>> THEN <<>>
    ELSE (IF \E x \in IMG_EXT : EndsWith(Lower(normalize_url(Head(cand))), x)
          THEN <<[url |-> normalize_url(Head(cand)), kind |-> "image", hint |-> hint]>>
          ELSE <<>>)
         \o ImageEntries(Tail(cand), hint)

\* The img loop body, run inside "if page_has_jalur": the noise test asks for
\* "not page_has_jalur" as well.
ExtractImage(img, page_has_jalur) ==
    IF /\ _is_noise(ImageHint(img))
       /\ ~JALUR_WORD_RE_search(ImageHint(img))
       /\ ~page_has_jalur
    THEN <<>>
    ELSE ImageEntries(ImageSources(img), ImageHint(img))

RECURSIVE ExtractImagesOf(_, _)
ExtractImagesOf(imgs, page_has_jalur) ==
    IF imgs = <<>> THEN <<>>
    ELSE ExtractImage(Head(imgs), page_has_jalur)
         \o ExtractImagesOf(Tail(imgs), page_has_jalur)

\* soup.get_text(" ", strip=True).lower(): the anchor labels and the other
\* text of the page
PageText(page) ==
    Lower(Join([k \in 1..Len(page.anchors) |-> Strip(page.anchors[k].text)]
               \o <<page.text>>, <<" ">>))

\* the image section
ExtractImages(page) ==
    IF JALUR_WORD_RE_search(PageText(page))
    THEN ExtractImagesOf(page.imgs, TRUE)
    ELSE <<>>

\* extract_links_and_assets(page_url, html) for a page with anchors,
\* embedded documents and images
extract_page(page) ==
    DedupLinks(ExtractAll(page.anchors) \o ExtractEmbeds(page.embeds)
                   \o ExtractImages(page), {})

RECURSIVE EntryRoots(_, _)
\* roots = [normalize_url(u) for u in menu_links
\*          if same_site(u, start) and is_admission_entry(u)]
EntryRoots(menu_links, start_url) ==
    IF menu_links = <<>> THEN <<>>
    ELSE (IF same_site_of[Head(menu_links), start_url] /\ is_admission_entry_of[Head(menu_links)]
          THEN <<normalize_url_of[Head(menu_links)]>> ELSE <<>>)
         \o EntryRoots(Tail(menu_links), start_url)

RECURSIVE AnalyseLinks(_, _, _, _)
\* STEP 3, the loop over found: <<the candidates appended, the pairs
\* (u, depth + 1) appended to q>>.  seen is the visited set, which the loop
\* does not change.
AnalyseLinks(found, start_url, seen, ctx) ==
    IF found = <<>> THEN <<<<>>, <<>>>>
    ELSE LET u    == normalize_url_of[Head(found).url]
             rest == AnalyseLinks(Tail(found), start_url, seen, ctx)
         IN  IF ~same_site_of[u, start_url] \/ hard_reject_of[u] THEN rest
             ELSE << (IF is_candidate_of[u, Head(found).hint]
                      THEN <<[url |-> u, kind |-> Head(found).kind,
                              source_page |-> ctx.page,
                              context_hint |-> Take(Head(found).hint, 300)]>>
                      ELSE <<>>) \o rest[1],
                     (IF Head(found).kind = "html" /\ u \notin seen
                      THEN <<<<u, ctx.depth + 1>>>> ELSE <<>>) \o rest[2] >>

RECURSIVE DedupCandidates(_, _)
\* STEP 4: the first candidate of every (url, kind, context_hint[:80]) is kept.
DedupCandidates(cs, seen) ==
    IF cs = <<>> THEN <<>>
    ELSE LET c   == Head(cs)
             key == <<c.url, c.kind, Take(c.context_hint, HINT_KEY_LEN)>>
         IN  IF key \in seen THEN DedupCandidates(Tail(cs), seen)
             ELSE <<c>> \o DedupCandidates(Tail(cs), seen \cup {key})

\* ------------------------------------------------------------------------
\* The orchestrators, as a state machine: main() of run_all.py / run_info.py
\* started up to MaxRuns times on the same seed sheet and checkpoint store
\* ------------------------------------------------------------------------

\* 'https://k.id/'
Seed_kampus == <<"h","t","t","p","s",":","/","/","k",".","i","d","/">>

\* ' https://u.id'
Seed_univ == <<" ","h","t","t","p","s",":","/","/","u",".","i","d">>

RawWebsites == {Seed_kampus, Seed_univ}

SeedSheets == [1..NumSeeds -> RawWebsites]

\* a page text of BROWSE_MIN_INFO_TEXT characters: a contact line and a rule
Text_long ==
    Text_contact \o [k \in 1..(BROWSE_MIN_INFO_TEXT - Len(Text_contact)) |-> "="]

\* What bundle_text(fetcher, website, mode="info") returns: run_info gets
\* (text, links), run_all gets (seed, text, blocked) and no links.
Bundles(prog) ==
    IF prog = "run_info"
    THEN {[text |-> Text_contact, links |-> Links_none,    blocked |-> FALSE],
          [text |-> Text_wa_word, links |-> Links_dropbox, blocked |-> FALSE]}
    ELSE {[text |-> Text_contact, links |-> Links_none, blocked |-> FALSE],
          [text |-> Text_long,    links |-> Links_none, blocked |-> FALSE],
          [text |-> Text_long,    links |-> Links_none, blocked |-> TRUE]}

\* What the Oracle answers: nothing, what the page says, or values the page
\* does not hold.
OracleAnswers ==
    {NoData,
     [NoInfo EXCEPT !.email = Email_seen, !.phone = Phone_seen, !.address = Address_padded],
     [NoInfo EXCEPT !.email = Email_fake, !.whatsapp = Wa_fake, !.twitter = Url_box]}

\* An output file that was never written: it offers no rows.
NoFile == <<>>

NoLocals ==
    [text |-> <<>>, links |-> <<>>, blocked |-> FALSE,
     proposed |-> NoInfo, info |-> NoInfo, oracle |-> "none"]

SeedIds == 1..NumSeeds

ZeroPerSeed == [k \in SeedIds |-> 0]

runVars ==
    <<r_pc, script, seeds, seed_i, state_done, state_file, rows, partial_file,
      final_file, cur, run_no, ckpt_at_start, decision, fetch_calls,
      oracle_calls, completed, killed_at>>

RunIdle ==
    /\ r_pc = "idle" /\ script = "none" /\ seeds = <<>> /\ seed_i = 0
    /\ state_done = EmptyDict /\ state_file = EmptyDict /\ rows = <<>>
    /\ partial_file = NoFile /\ final_file = NoFile /\ cur = NoLocals
    /\ run_no = 0 /\ ckpt_at_start = EmptyDict /\ decision = <<>>
    /\ fetch_calls = <<>> /\ oracle_calls = <<>> /\ completed = <<>>
    /\ killed_at = <<>>

gateVars == <<g_pc, g_info, g_text, g_links, g_out>>

crawlVars == <<c_pc, start, max_pages, visited, q, candidates, best, fetched, discovered,
              fetch_depths>>

jalurVars == <<j_main, concurrency, sem, j_pc, j_cands, j_pos, all_validated>>

JalurIdle ==
    /\ j_main = "idle" /\ concurrency = 0 /\ sem = 0 /\ j_pc = <<>>
    /\ j_cands = <<>> /\ j_pos = <<>> /\ all_validated = <<>>

\* None
NoResult ==
    [none |-> TRUE, ok |-> FALSE, text |-> <<>>, error |-> <<>>, status |-> 0]

fetchVars == <<f_pc, f_tries, f_base_sleep, f_t, f_pages, f_results, f_sleeps, f_ret, blocked_flag>>

FetchIdle ==
    /\ f_pc = "idle" /\ f_tries = 0 /\ f_base_sleep = 0 /\ f_t = 0 /\ f_pages = <<>>
    /\ f_results = <<>> /\ f_sleeps = <<>> /\ f_ret = NoResult /\ blocked_flag = FALSE

urlVars == <<url_pc, url_a, url_b, url_na, url_nb, url_na2, url_same, url_fetched>>

UrlIdle ==
    /\ url_pc = "idle" /\ url_a = <<>> /\ url_b = <<>>
    /\ url_na = [jalur |-> <<>>, info |-> <<>>, key |-> <<>>]
    /\ url_nb = [jalur |-> <<>>, info |-> <<>>, key |-> <<>>]
    /\ url_na2 = [jalur |-> <<>>, info |-> <<>>, key |-> <<>>]
    /\ url_same = [jalur |-> FALSE, info |-> FALSE]
    /\ url_fetched = [jalur |-> <<>>, info |-> <<>>]

extractVars == <<x_pc, x_page, x_out>>

ExtractIdle ==
    /\ x_pc = "idle" /\ x_out = <<>>
    /\ x_page = [anchors |-> <<>>, embeds |-> <<>>, imgs |-> <<>>, text |-> <<>>]

geminiVars == <<gm_pc, gm_fn, gm_models, gm_max_retries, gm_mi, gm_attempt, gm_calls, gm_sleeps, gm_usage, gm_ret>>

GeminiIdle ==
    /\ gm_pc = "idle" /\ gm_fn = "idle" /\ gm_models = <<>> /\ gm_max_retries = 0 /\ gm_mi = 0
    /\ gm_attempt = 0 /\ gm_calls = <<>> /\ gm_sleeps = <<>> /\ gm_usage = 0 /\ gm_ret = "none"

browserVars == <<b_pc, b_seed, b_contexts, b_context, b_page, b_jar, b_fetches>>

BrowserIdle ==
    /\ b_pc = "idle" /\ b_seed = 0 /\ b_contexts = 0 /\ b_context = 0 /\ b_page = 0
    /\ b_jar = <<>> /\ b_fetches = <<>>

\* no fetch at hand
NoFetch == [ok |-> FALSE, content |-> FALSE, text |-> <<>>]

validateVars == <<v_pc, v_validate_only, v_cands, v_pos, v_fr, v_oracle, v_validated, v_items, v_files>>

ValidateIdle ==
    /\ v_pc = "idle" /\ v_validate_only = FALSE /\ v_cands = <<>> /\ v_pos = 0
    /\ v_fr = NoFetch /\ v_oracle = <<>> /\ v_validated = <<>> /\ v_items = <<>>
    /\ v_files = <<>>

\* no site in play
NoSite == [menu |-> <<>>, links |-> <<>>]

siteVars == <<site>>

SiteIdle ==
    /\ site = NoSite

\* combined = ""
NoText == [len |-> 0, kw |-> FALSE]

bundleVars == <<bt_pc, bt_mode, bt_links, bt_visited, bt_queue, bt_combined, bt_seed_len, bt_blocked, bt_discovered, bt_add, bt_next, bt_fetched, bt_skipped>>

BundleIdle ==
    /\ bt_pc = "idle" /\ bt_mode = "idle" /\ bt_links = <<>> /\ bt_visited = {}
    /\ bt_queue = <<>> /\ bt_combined = NoText /\ bt_seed_len = 0 /\ bt_blocked = FALSE
    /\ bt_discovered = <<>> /\ bt_add = 0 /\ bt_next = 0 /\ bt_fetched = <<>>
    /\ bt_skipped = <<>>

teardownVars == <<td_pc, td_fn, td_ctx, td_outcome, td_open, td_made, td_returns>>

TeardownIdle ==
    /\ td_pc = "off" /\ td_fn = "none" /\ td_ctx = 0 /\ td_outcome = "none"
    /\ td_open = {} /\ td_made = 0 /\ td_returns = <<>>

\* what each part of the model leaves alone
outsideGate == <<crawlVars, runVars, jalurVars, fetchVars, urlVars, extractVars, geminiVars, browserVars, validateVars, siteVars, bundleVars, teardownVars>>

outsideCrawl == <<gateVars, runVars, jalurVars, fetchVars, urlVars, extractVars, geminiVars, browserVars, validateVars, siteVars, bundleVars, teardownVars>>

outsideRun == <<gateVars, crawlVars, jalurVars, fetchVars, urlVars, extractVars, geminiVars, browserVars, validateVars, siteVars, bundleVars, teardownVars>>

outsideJalur == <<gateVars, crawlVars, runVars, fetchVars, urlVars, extractVars, geminiVars, browserVars, validateVars, siteVars, bundleVars, teardownVars>>

outsideFetch == <<gateVars, crawlVars, runVars, jalurVars, urlVars, extractVars, geminiVars, browserVars, validateVars, siteVars, bundleVars, teardownVars>>

outsideUrl == <<gateVars, crawlVars, runVars, jalurVars, fetchVars, extractVars, geminiVars, browserVars, validateVars, siteVars, bundleVars, teardownVars>>

outsideExtract == <<gateVars, crawlVars, runVars, jalurVars, fetchVars, urlVars, geminiVars, browserVars, validateVars, siteVars, bundleVars, teardownVars>>

outsideGemini == <<gateVars, crawlVars, runVars, jalurVars, fetchVars, urlVars, extractVars, browserVars, validateVars, siteVars, bundleVars, teardownVars>>

outsideBrowser == <<gateVars, crawlVars, runVars, jalurVars, fetchVars, urlVars, extractVars, geminiVars, validateVars, siteVars, bundleVars, teardownVars>>

outsideValidate == <<gateVars, crawlVars, runVars, jalurVars, fetchVars, urlVars, extractVars, geminiVars, browserVars, siteVars, bundleVars, teardownVars>>

outsideSite == <<gateVars, crawlVars, runVars, jalurVars, fetchVars, urlVars, extractVars, geminiVars, browserVars, validateVars, bundleVars, teardownVars>>

outsideBundle == <<gateVars, crawlVars, runVars, jalurVars, fetchVars, urlVars, extractVars, geminiVars, browserVars, validateVars, siteVars, teardownVars>>

outsideTeardown == <<gateVars, crawlVars, runVars, jalurVars, fetchVars, urlVars, extractVars, geminiVars, browserVars, validateVars, siteVars, bundleVars>>

vars == <<gateVars, crawlVars, runVars, jalurVars, fetchVars, urlVars, extractVars, geminiVars, browserVars, validateVars, siteVars, bundleVars, teardownVars>>

GateIdle ==
    /\ g_pc = "idle" /\ g_info = NoInfo /\ g_text = <<>> /\ g_links = <<>> /\ g_out = NoInfo

CrawlIdle ==
    /\ c_pc = "idle" /\ start = <<>> /\ max_pages = 0 /\ visited = {}
    /\ q = <<>> /\ candidates = <<>> /\ best = <<>> /\ fetched = <<>>
    /\ discovered = <<>>
    /\ fetch_depths = <<>>

\* ------------------------------------------------------------------------
\* Evidence Gate, as a state machine: the Oracle proposes, the gate answers
\* ------------------------------------------------------------------------

InitGate ==
    /\ g_pc = "proposed"
    /\ g_info \in InfoProposals
    /\ g_text \in Texts
    /\ g_links \in LinkLists
    /\ g_out = NoInfo
    /\ CrawlIdle
    /\ RunIdle
    /\ JalurIdle
    /\ FetchIdle
    /\ UrlIdle
    /\ ExtractIdle
    /\ GeminiIdle
    /\ BrowserIdle
    /\ ValidateIdle
    /\ SiteIdle
    /\ BundleIdle
    /\ TeardownIdle

Enforce ==
    /\ g_pc = "proposed"
    /\ g_out' = enforce_evidence_info(g_info, g_text, g_links)
    /\ g_pc' = "gated"
    /\ UNCHANGED <<g_info, g_text, g_links, outsideGate>>

NextGate == Enforce

SpecGate == InitGate /\ [][NextGate]_vars

\* ------------------------------------------------------------------------
\* crawl_site, as a state machine: seeded -> expanding -> exhausted
\* ------------------------------------------------------------------------

InitCrawl ==
    /\ c_pc = "seeded"
    /\ start \in Starts
    /\ max_pages \in 1..MaxPagesBound
    /\ visited = {}
    /\ q = <<>>
    /\ candidates = <<>>
    /\ best = <<>>
    /\ fetched = <<>>
    /\ discovered = <<>>
    /\ fetch_depths = <<>>
    /\ GateIdle
    /\ RunIdle
    /\ JalurIdle
    /\ FetchIdle
    /\ UrlIdle
    /\ ExtractIdle
    /\ GeminiIdle
    /\ BrowserIdle
    /\ ValidateIdle
    /\ SiteIdle
    /\ BundleIdle
    /\ TeardownIdle

\* STEP 1 when the menu yields no entry point (also when the fetch failed and
\* menu_links is empty): return [].
AbortWith(menu_links) ==
    /\ c_pc = "seeded"
    /\ EntryRoots(menu_links, start) = <<>>
    /\ fetched' = Append(fetched, start)
    /\ best' = <<>>
    /\ c_pc' = "exhausted"
    /\ UNCHANGED <<start, max_pages, visited, q, candidates, discovered, fetch_depths, outsideCrawl>>

\* STEP 1 when roots is not empty: q = deque([(u, 0) for u in roots[:3]])
SeedWith(menu_links) ==
    /\ c_pc = "seeded"
    /\ LET roots == EntryRoots(menu_links, start)
       IN  /\ roots # <<>>
           /\ q' = [k \in 1..Len(Take(roots, 3)) |-> <<roots[k], 0>>]
    /\ fetched' = Append(fetched, start)
    /\ c_pc' = "expanding"
    /\ UNCHANGED <<start, max_pages, visited, candidates, best, discovered, fetch_depths, outsideCrawl>>

\* url, depth = q.popleft(), without taking the entry off the deque
Popped_kept(queue) == queue

\* url, depth = q.popleft(): what is left of the deque
Popped(queue) == Tail(queue)

\* q.appendleft for every continuation
Enqueue_front(queue, entries) == entries \o queue

\* q.append((u, depth + 1)) for every continuation, in the order of found
Enqueue(queue, entries) == queue \o entries

\* if depth > MAX_ADMISSION_DEPTH: continue, never taken
ExceedsDepth_never(depth) == FALSE

\* if depth > MAX_ADMISSION_DEPTH: continue
ExceedsDepth(depth) == depth > MAX_ADMISSION_DEPTH

\* while q and len(visited) < max_pages
LoopCondition == q # <<>> /\ Cardinality(visited) < max_pages

\* the four "continue" tests on the popped (url, depth)
SkipsPopped(url, depth) ==
    \/ url \in visited
    \/ ExceedsDepth(depth)
    \/ ~same_site_of[url, start]
    \/ hard_reject_of[url]

\* STEP 1 with the menu links of some navigation bar.
CrawlAbort == \E menu_links \in DistinctSeqsUpTo(MenuHrefs, MaxMenu) : AbortWith(menu_links)

CrawlSeed == \E menu_links \in DistinctSeqsUpTo(MenuHrefs, MaxMenu) : SeedWith(menu_links)

\* One iteration that pops and skips.
CrawlSkip ==
    /\ c_pc = "expanding"
    /\ LoopCondition
    /\ SkipsPopped(Head(q)[1], Head(q)[2])
    /\ q' = Popped(q)
    /\ UNCHANGED <<c_pc, start, max_pages, visited, candidates, best, fetched, discovered,
                   fetch_depths, outsideCrawl>>

\* One iteration that visits the popped URL and finds the fetch failed.
CrawlVisitFailed ==
    /\ c_pc = "expanding"
    /\ LoopCondition
    /\ ~SkipsPopped(Head(q)[1], Head(q)[2])
    /\ visited' = visited \cup {Head(q)[1]}
    /\ fetched' = Append(fetched, Head(q)[1])
    /\ fetch_depths' = Append(fetch_depths, Head(q)[2])
    /\ q' = Popped(q)
    /\ UNCHANGED <<c_pc, start, max_pages, candidates, best, discovered, outsideCrawl>>

\* One iteration that visits the popped URL, extracts its links and runs
\* STEP 3 over them.
VisitWith(anchors) ==
    /\ c_pc = "expanding"
    /\ LoopCondition
    /\ ~SkipsPopped(Head(q)[1], Head(q)[2])
    /\ visited' = visited \cup {Head(q)[1]}
    /\ fetched' = Append(fetched, Head(q)[1])
    /\ fetch_depths' = Append(fetch_depths, Head(q)[2])
    /\ LET found == extract_links_and_assets(anchors)
           res   == AnalyseLinks(found, start, visited',
                                 [page |-> Head(q)[1], depth |-> Head(q)[2]])
       IN  /\ candidates' = candidates \o res[1]
           /\ q' = Enqueue(Popped(q), res[2])
           /\ discovered' = discovered \o ExtractAll(anchors)
    /\ UNCHANGED <<c_pc, start, max_pages, best, outsideCrawl>>

\* ... for a page holding some anchors.
CrawlVisit == \E anchors \in SeqsUpTo(Anchors, MaxFound) : VisitWith(anchors)

\* The loop ends: STEP 4 and return best.
CrawlFinish ==
    /\ c_pc = "expanding"
    /\ ~LoopCondition
    /\ best' = DedupCandidates(candidates, {})
    /\ c_pc' = "exhausted"
    /\ UNCHANGED <<start, max_pages, visited, q, candidates, fetched, discovered, fetch_depths, outsideCrawl>>

NextCrawl ==
    \/ CrawlAbort
    \/ CrawlSeed
    \/ CrawlSkip
    \/ CrawlVisitFailed
    \/ CrawlVisit
    \/ CrawlFinish

SpecCrawl == InitCrawl /\ [][NextCrawl]_vars

\* the key of the seed in row k
Key(k) == CheckpointKey(script, k, seeds[k])

\* The first start of main(): no checkpoint file, state = {"done": {}}.
InitRun ==
    /\ r_pc = "check"
    /\ script \in {"run_all", "run_info"}
    /\ seeds \in SeedSheets
    /\ seed_i = 1
    /\ state_done = EmptyDict
    /\ state_file = EmptyDict
    /\ rows = <<>>
    /\ partial_file = NoFile
    /\ final_file = NoFile
    /\ cur = NoLocals
    /\ run_no = 1
    /\ ckpt_at_start = EmptyDict
    /\ decision = [k \in SeedIds |-> "none"]
    /\ fetch_calls = ZeroPerSeed
    /\ oracle_calls = ZeroPerSeed
    /\ completed = ZeroPerSeed
    /\ killed_at = <<>>
    /\ GateIdle
    /\ CrawlIdle
    /\ JalurIdle
    /\ FetchIdle
    /\ UrlIdle
    /\ ExtractIdle
    /\ GeminiIdle
    /\ BrowserIdle
    /\ ValidateIdle
    /\ SiteIdle
    /\ BundleIdle
    /\ TeardownIdle

history == <<ckpt_at_start, decision, fetch_calls, oracle_calls, completed, killed_at>>

\* if state["done"].get(key) == "ok": continue
SkipSeed ==
    /\ r_pc = "check"
    /\ seed_i <= NumSeeds
    /\ IsSkipped(state_done, Key(seed_i))
    /\ decision' = [decision EXCEPT ![seed_i] = "skip"]
    /\ seed_i' = seed_i + 1
    /\ UNCHANGED <<outsideRun, r_pc, script, seeds, state_done, state_file, rows, partial_file,
                   final_file, cur, run_no, ckpt_at_start, fetch_calls,
                   oracle_calls, completed, killed_at>>

\* ... otherwise the loop body starts.
StartSeed ==
    /\ r_pc = "check"
    /\ seed_i <= NumSeeds
    /\ ~IsSkipped(state_done, Key(seed_i))
    /\ decision' = [decision EXCEPT ![seed_i] = "process"]
    /\ cur' = NoLocals
    /\ r_pc' = "fetch"
    /\ UNCHANGED <<outsideRun, script, seeds, seed_i, state_done, state_file, rows, partial_file,
                   final_file, run_no, ckpt_at_start, fetch_calls,
                   oracle_calls, completed, killed_at>>

\* bundle_text(fetcher, website, mode="info")
FetchBundle ==
    /\ r_pc = "fetch"
    /\ fetch_calls' = [fetch_calls EXCEPT ![seed_i] = @ + 1]
    /\ \E b \in Bundles(script) :
          cur' = [cur EXCEPT !.text = b.text, !.links = b.links, !.blocked = b.blocked]
    /\ r_pc' = "oracle"
    /\ UNCHANGED <<outsideRun, script, seeds, seed_i, state_done, state_file, rows, partial_file,
                   final_file, run_no, ckpt_at_start, decision,
                   oracle_calls, completed, killed_at>>

\* run_info: extract_json, normalize_info_keys, enforce_evidence_info
OracleRunInfo ==
    /\ r_pc = "oracle"
    /\ script = "run_info"
    /\ oracle_calls' = [oracle_calls EXCEPT ![seed_i] = @ + 1]
    /\ \E data \in OracleAnswers :
          cur' = [cur EXCEPT
                    !.proposed = normalize_info_keys(data),
                    !.info = enforce_evidence_info(normalize_info_keys(data),
                                                   cur.text, cur.links),
                    !.oracle = "text"]
    /\ r_pc' = "row"
    /\ UNCHANGED <<outsideRun, script, seeds, seed_i, state_done, state_file, rows, partial_file,
                   final_file, run_no, ckpt_at_start, decision,
                   fetch_calls, completed, killed_at>>

\* run_all: extract_json_browse or extract_json, then normalize_info_keys
OracleRunAll ==
    /\ r_pc = "oracle"
    /\ script = "run_all"
    /\ oracle_calls' = [oracle_calls EXCEPT ![seed_i] = @ + 1]
    /\ \E data \in OracleAnswers :
          cur' = [cur EXCEPT
                    !.proposed = normalize_info_keys(data),
                    !.info = normalize_info_keys(data),
                    !.oracle = IF use_browse_info(cur.text, cur.blocked)
                               THEN "browse" ELSE "text"]
    /\ r_pc' = "visi"
    /\ UNCHANGED <<outsideRun, script, seeds, seed_i, state_done, state_file, rows, partial_file,
                   final_file, run_no, ckpt_at_start, decision,
                   fetch_calls, completed, killed_at>>

\* run_all: the VISI dan MISI part, one more bundle and one more Oracle call;
\* what it yields goes to the description column only.
VisiRunAll ==
    /\ r_pc = "visi"
    /\ fetch_calls' = [fetch_calls EXCEPT ![seed_i] = @ + 1]
    /\ oracle_calls' = [oracle_calls EXCEPT ![seed_i] = @ + 1]
    /\ r_pc' = "row"
    /\ UNCHANGED <<outsideRun, script, seeds, seed_i, state_done, state_file, rows, partial_file,
                   final_file, cur, run_no, ckpt_at_start, decision,
                   completed, killed_at>>

\* out = {...}; rows.append(out).  Beside the columns, a row here carries the
\* proposal and the evidence its values came from.
OutputRow ==
    [id       |-> seed_i,
     website  |-> Strip(seeds[seed_i]),
     info     |-> cur.info,
     proposed |-> cur.proposed,
     ev_text  |-> cur.text,
     ev_links |-> cur.links,
     oracle   |-> cur.oracle]

AppendRow ==
    /\ r_pc = "row"
    /\ rows' = Append(rows, OutputRow)
    /\ r_pc' = "checkpoint"
    /\ UNCHANGED <<outsideRun, script, seeds, seed_i, state_done, state_file, partial_file,
                   final_file, cur, run_no, history>>

\* state["done"][key] = "ok"; json.dump(state, ...)
WriteCheckpoint ==
    /\ r_pc = "checkpoint"
    /\ state_done' = DictPut(state_done, Key(seed_i), "ok")
    /\ state_file' = state_done'
    /\ completed' = [completed EXCEPT ![seed_i] = @ + 1]
    /\ IF script = "run_all"
       THEN r_pc' = "autosave" /\ seed_i' = seed_i
       ELSE r_pc' = "check" /\ seed_i' = seed_i + 1
    /\ UNCHANGED <<outsideRun, script, seeds, rows, partial_file, final_file, cur, run_no,
                   ckpt_at_start, decision, fetch_calls, oracle_calls, killed_at>>

\* run_all: autosave per kampus
Autosave ==
    /\ r_pc = "autosave"
    /\ partial_file' = rows
    /\ r_pc' = "check"
    /\ seed_i' = seed_i + 1
    /\ UNCHANGED <<outsideRun, script, seeds, state_done, state_file, rows, final_file, cur,
                   run_no, history>>

\* A fetch, an Oracle call, match_region or the building of the row raises.
\* run_all catches it ...
RaiseCaught ==
    /\ r_pc \in {"fetch", "oracle", "visi", "row"}
    /\ script = "run_all"
    /\ r_pc' = "except"
    /\ UNCHANGED <<outsideRun, script, seeds, seed_i, state_done, state_file, rows, partial_file,
                   final_file, cur, run_no, history>>

\* ... run_info does not: main() ends there, nothing more is written.
RaiseFatal ==
    /\ r_pc \in {"fetch", "oracle", "row"}
    /\ script = "run_info"
    /\ r_pc' = "dead"
    /\ killed_at' = Append(killed_at, "exception")
    /\ state_done' = EmptyDict
    /\ rows' = <<>>
    /\ cur' = NoLocals
    /\ UNCHANGED <<outsideRun, script, seeds, seed_i, state_file, partial_file, final_file,
                   run_no, ckpt_at_start, decision, fetch_calls, oracle_calls,
                   completed>>

\* run_all, except Exception: the error status is recorded and dumped, the
\* partial output is saved if there are rows; continue.
HandleError ==
    /\ r_pc = "except"
    /\ state_done' = DictPut(state_done, Key(seed_i), "error")
    /\ state_file' = state_done'
    /\ partial_file' = IF rows # <<>> THEN rows ELSE partial_file
    /\ r_pc' = "check"
    /\ seed_i' = seed_i + 1
    /\ UNCHANGED <<outsideRun, script, seeds, rows, final_file, cur, run_no, history>>

\* After the loop: the final save.
FinalSave ==
    /\ r_pc = "check"
    /\ seed_i > NumSeeds
    /\ final_file' = rows
    /\ r_pc' = "finished"
    /\ UNCHANGED <<outsideRun, script, seeds, seed_i, state_done, state_file, rows, partial_file,
                   cur, run_no, history>>

\* The process is interrupted between two statements: what it held in memory
\* is gone, the files stay.
Kill ==
    /\ r_pc \notin {"idle", "dead", "finished"}
    /\ run_no < MaxRuns
    /\ killed_at' = Append(killed_at, r_pc)
    /\ r_pc' = "dead"
    /\ state_done' = EmptyDict
    /\ rows' = <<>>
    /\ cur' = NoLocals
    /\ UNCHANGED <<outsideRun, script, seeds, seed_i, state_file, partial_file, final_file,
                   run_no, ckpt_at_start, decision, fetch_calls, oracle_calls,
                   completed>>

\* main() is started again on the same sheet: the checkpoint is loaded, rows
\* starts empty.
StartRun ==
    /\ r_pc \in {"dead", "finished"}
    /\ run_no < MaxRuns
    /\ run_no' = run_no + 1
    /\ state_done' = state_file
    /\ ckpt_at_start' = state_file
    /\ rows' = <<>>
    /\ cur' = NoLocals
    /\ seed_i' = 1
    /\ decision' = [k \in SeedIds |-> "none"]
    /\ fetch_calls' = ZeroPerSeed
    /\ oracle_calls' = ZeroPerSeed
    /\ r_pc' = "check"
    /\ UNCHANGED <<outsideRun, script, seeds, state_file, partial_file, final_file, completed,
                   killed_at>>

NextRun ==
    \/ SkipSeed
    \/ StartSeed
    \/ FetchBundle
    \/ OracleRunInfo
    \/ OracleRunAll
    \/ VisiRunAll
    \/ AppendRow
    \/ WriteCheckpoint
    \/ Autosave
    \/ RaiseCaught
    \/ RaiseFatal
    \/ HandleError
    \/ FinalSave
    \/ Kill
    \/ StartRun

SpecRun == InitRun /\ [][NextRun]_vars

\* ------------------------------------------------------------------------
\* jalur_pendaftaran-scraper/run.py: main() gathers one process_one task per
\* row of the sheet; the tasks share one asyncio.Semaphore
\* ------------------------------------------------------------------------

\* the rows of the input sheet are 1..NumRows
NumRows == 3

\* args.concurrency ranges over 0..MaxConcurrency
MaxConcurrency == 2

\* crawl_site returns at most MaxCands candidates
MaxCands == 2

SheetRows == 1..NumRows

\* crawl_site returns a list of candidates; the pages' kind is "html"
CandidateLists == SeqsUpTo({"html"}, MaxCands)

\* sem = asyncio.Semaphore(max(1, args.concurrency))
SemaphoreValue(c) == Max({1, c})

\* an acquire that never waits
CanAcquire_always(value) == TRUE

\* Semaphore.acquire() goes through without waiting only while the value is
\* positive
CanAcquire(value) == value > 0

\* What the body of the candidate loop appends to all_validated for one
\* candidate: the verdict, and a second, "uncertain" record when the
\* extraction that follows a "valid" verdict raises; an exception before the
\* verdict leaves the "uncertain" record alone.
ValidationRecords ==
    {<<"valid">>, <<"invalid">>, <<"uncertain">>, <<"valid", "uncertain">>}

InitJalur ==
    /\ j_main = "gather"
    /\ concurrency \in 0..MaxConcurrency
    /\ sem = SemaphoreValue(concurrency)
    /\ j_pc = [k \in SheetRows |-> "created"]
    /\ j_cands = [k \in SheetRows |-> <<>>]
    /\ j_pos = [k \in SheetRows |-> 0]
    /\ all_validated = <<>>
    /\ GateIdle
    /\ CrawlIdle
    /\ RunIdle
    /\ FetchIdle
    /\ UrlIdle
    /\ ExtractIdle
    /\ GeminiIdle
    /\ BrowserIdle
    /\ ValidateIdle
    /\ SiteIdle
    /\ BundleIdle
    /\ TeardownIdle

\* async with sem: the task of row k gets past the semaphore
JEnter(k) ==
    /\ j_main = "gather"
    /\ j_pc[k] = "created"
    /\ CanAcquire(sem)
    /\ sem' = sem - 1
    /\ j_pc' = [j_pc EXCEPT ![k] = "crawl"]
    /\ UNCHANGED <<j_main, concurrency, j_cands, j_pos, all_validated, outsideJalur>>

\* candidates = await crawl_site(...)
JCrawl(k) ==
    /\ j_main = "gather"
    /\ j_pc[k] = "crawl"
    /\ \E cs \in CandidateLists : j_cands' = [j_cands EXCEPT ![k] = cs]
    /\ j_pc' = [j_pc EXCEPT ![k] = "validate"]
    /\ UNCHANGED <<j_main, concurrency, sem, j_pos, all_validated, outsideJalur>>

\* crawl_site raises: the exception leaves async with sem (which releases)
\* and process_one; gather hands it to main(), which ends without saving.
\* The tasks still pending are cancelled with the event loop.
JCrawlRaise(k) ==
    /\ j_main = "gather"
    /\ j_pc[k] = "crawl"
    /\ sem' = sem + 1
    /\ j_pc' = [j_pc EXCEPT ![k] = "raised"]
    /\ j_main' = "crashed"
    /\ UNCHANGED <<concurrency, j_cands, j_pos, all_validated, outsideJalur>>

\* for j, c in enumerate(candidates, start=1): one candidate is fetched,
\* validated and, if valid, extracted
JValidate(k) ==
    /\ j_main = "gather"
    /\ j_pc[k] = "validate"
    /\ j_pos[k] < Len(j_cands[k])
    /\ j_pos' = [j_pos EXCEPT ![k] = @ + 1]
    /\ \E vs \in ValidationRecords :
          all_validated' = all_validated \o
              [n \in 1..Len(vs) |->
                  [row |-> k, cand |-> j_pos[k] + 1,
                   kind |-> j_cands[k][j_pos[k] + 1], verdict |-> vs[n]]]
    /\ UNCHANGED <<j_main, concurrency, sem, j_pc, j_cands, outsideJalur>>

\* the loop is through: DONE, the semaphore is released
JDone(k) ==
    /\ j_main = "gather"
    /\ j_pc[k] = "validate"
    /\ j_pos[k] = Len(j_cands[k])
    /\ sem' = sem + 1
    /\ j_pc' = [j_pc EXCEPT ![k] = "done"]
    /\ UNCHANGED <<j_main, concurrency, j_cands, j_pos, all_validated, outsideJalur>>

\* await asyncio.gather(*tasks) returns; the outputs are written
JSave ==
    /\ j_main = "gather"
    /\ \A k \in SheetRows : j_pc[k] = "done"
    /\ j_main' = "saved"
    /\ UNCHANGED <<concurrency, sem, j_pc, j_cands, j_pos, all_validated, outsideJalur>>

NextJalur ==
    \/ \E k \in SheetRows : JEnter(k)
    \/ \E k \in SheetRows : JCrawl(k)
    \/ \E k \in SheetRows : JCrawlRaise(k)
    \/ \E k \in SheetRows : JValidate(k)
    \/ \E k \in SheetRows : JDone(k)
    \/ JSave

SpecJalur == InitJalur /\ [][NextJalur]_vars

\* ------------------------------------------------------------------------
\* The fetch layer of the orchestrated run: PlaywrightFetcher.fetch
\* (informasi-scraper/app/fetcher.py), _looks_blocked and _fetch_with_retry
\* (run_all.py)
\* ------------------------------------------------------------------------

\* "just a moment"
Lit_just_a_moment == <<"j","u","s","t"," ","a"," ","m","o","m","e","n","t">>

\* "checking your browser"
Lit_checking_your_browser == <<"c","h","e","c","k","i","n","g"," ","y","o","u","r"," ","b","r","o","w","s","e","r">>

\* "cloudflare"
Lit_cloudflare == <<"c","l","o","u","d","f","l","a","r","e">>

\* "blocked_cloudflare_like"
Lit_blocked_cloudflare_like == <<"b","l","o","c","k","e","d","_","c","l","o","u","d","f","l","a","r","e","_","l","i","k","e">>

\* "playwright_timeout:"
Lit_playwright_timeout == <<"p","l","a","y","w","r","i","g","h","t","_","t","i","m","e","o","u","t",":">>

\* "playwright_err:"
Lit_playwright_err == <<"p","l","a","y","w","r","i","g","h","t","_","e","r","r",":">>

\* "<title>"
Lit_title_open == <<"<","t","i","t","l","e",">">>

\* "</title>"
Lit_title_close == <<"<","/","t","i","t","l","e",">">>

\* FetchResult(ok, final_url, html, text, links, error, status), the fields
\* the retry loop reads.  none marks Python's None.
FetchResult(ok, text, error, status) ==
    [none |-> FALSE, ok |-> ok, text |-> text, error |-> error, status |-> status]

RECURSIVE CollapseSpaces(_)
\* " ".join(txt.split()) of a stripped text
CollapseSpaces(s) ==
    IF s = <<>> THEN <<>>
    ELSE IF IsSpace(Head(s)) THEN <<" ">> \o CollapseSpaces(LStrip(s))
    ELSE <<Head(s)>> \o CollapseSpaces(Tail(s))

\* page.content() of a page with the given title and visible text
PageHtml(page) ==
    IF page.exc # "none" THEN <<>>
    ELSE Lit_title_open \o page.title \o Lit_title_close \o page.inner

\* _html_to_text(html): the text nodes of the document, the title included
HtmlToText(page) ==
    Strip(Join(SelectSeq(<<Strip(page.title), Strip(page.inner)>>,
                         LAMBDA part : part # <<>>), <<" ">>))

\* _extract_text_multi(page): innerText, whitespace collapsed; the text of
\* the markup when innerText is empty
ExtractText(page) ==
    IF Strip(page.inner) # <<>> THEN CollapseSpaces(Strip(page.inner))
    ELSE HtmlToText(page)

\* The result of fetch for a page that loaded: ok, err and the return
FetchLoaded(page, title, text) ==
    FetchResult(
        page.resp /\ page.status < 400 /\ ~Contains(Lit_just_a_moment, title),
        text,
        IF \/ Contains(Lit_just_a_moment, title)
           \/ Contains(Lit_checking_your_browser, Lower(text))
        THEN Lit_blocked_cloudflare_like ELSE <<>>,
        IF page.resp THEN page.status ELSE 0)

\* PlaywrightFetcher.fetch(url) when the site serves page
fetch(page) ==
    IF page.exc = "timeout"
    THEN FetchResult(FALSE, <<>>, Lit_playwright_timeout \o page.msg, 0)
    ELSE IF page.exc = "error"
    THEN FetchResult(FALSE, <<>>, Lit_playwright_err \o page.msg, 0)
    ELSE FetchLoaded(page, Lower(page.title), ExtractText(page))

\* len(text) < 80
BLOCKED_TEXT_MIN == 80

\* _looks_blocked(fetch_res)
_looks_blocked(r) ==
    \/ Contains(Lit_blocked_cloudflare_like, Lower(r.error))
    \/ Contains(Lit_cloudflare, Lower(r.error))
    \/ Contains(Lit_just_a_moment, Lower(r.error))
    \/ ~r.ok /\ Len(Strip(r.text)) < BLOCKED_TEXT_MIN

\* if getattr(r, "ok", False) and (getattr(r, "text", "") or "").strip()
IsGoodResult(r) == r.ok /\ Strip(r.text) # <<>>

\* a loop that allows one attempt more than tries
HasAttemptLeft_one_more(t, tries) == t <= tries

\* for t in range(tries)
HasAttemptLeft(t, tries) == t < tries


\* what a site may serve

\* 'Kampus K'
Title_kampus == <<"K","a","m","p","u","s"," ","K">>

\* 'Just a moment...'
Title_challenge == <<"J","u","s","t"," ","a"," ","m","o","m","e","n","t",".",".",".">>

\* 'info@kampus.id 0812-345-678'
Body_contact == <<"i","n","f","o","@","k","a","m","p","u","s",".","i","d"," ","0","8","1","2","-","3","4","5","-","6","7","8">>

\* 'Just a moment...'
Body_challenge == <<"J","u","s","t"," ","a"," ","m","o","m","e","n","t",".",".",".">>

\* 'Checking your browser'
Body_checking == <<"C","h","e","c","k","i","n","g"," ","y","o","u","r"," ","b","r","o","w","s","e","r">>

\* 'Not  Found'
Body_not_found == <<"N","o","t"," "," ","F","o","u","n","d">>

\* 'Timeout 45000ms exceeded.'
Msg_timeout == <<"T","i","m","e","o","u","t"," ","4","5","0","0","0","m","s"," ","e","x","c","e","e","d","e","d",".">>

\* 'net::ERR_CONNECTION_RESET'
Msg_reset == <<"n","e","t",":",":","E","R","R","_","C","O","N","N","E","C","T","I","O","N","_","R","E","S","E","T">>

\* a visible text of n characters
TextOfLen(n) == [k \in 1..n |-> "a"]

\* tries ranges over 1..MaxTries
MaxTries == 3

\* base_sleep: 3.0 by default, 4.0 in the fallback pass of bundle_text
BaseSleeps == {3, 4}

LoadedPage(status, title, inner) ==
    [exc |-> "none", msg |-> <<>>, resp |-> TRUE, status |-> status,
     title |-> title, inner |-> inner]

Pages ==
    {LoadedPage(200, Title_kampus, Body_contact),
     LoadedPage(200, Title_kampus, <<>>),
     LoadedPage(403, Title_challenge, <<>>),
     LoadedPage(200, Title_challenge, Body_challenge),
     LoadedPage(200, Title_kampus, Body_challenge),
     LoadedPage(200, Title_kampus, Body_checking),
     LoadedPage(404, Title_kampus, Body_not_found),
     LoadedPage(404, Title_kampus, TextOfLen(BLOCKED_TEXT_MIN)),
     LoadedPage(503, Title_kampus, TextOfLen(BLOCKED_TEXT_MIN - 1)),
     [exc |-> "none", msg |-> <<>>, resp |-> FALSE, status |-> 0,
      title |-> Title_kampus, inner |-> Body_contact],
     [exc |-> "timeout", msg |-> Msg_timeout, resp |-> FALSE, status |-> 0,
      title |-> <<>>, inner |-> <<>>],
     [exc |-> "error", msg |-> Msg_reset, resp |-> FALSE, status |-> 0,
      title |-> <<>>, inner |-> <<>>]}

\* fetch, tabulated over the pages in play
fetch_of == Tabulated([page \in Pages |-> fetch(page)])

InitFetch ==
    /\ f_pc = "loop"
    /\ f_tries \in 1..MaxTries
    /\ f_base_sleep \in BaseSleeps
    /\ f_t = 0
    /\ f_pages = <<>>
    /\ f_results = <<>>
    /\ f_sleeps = <<>>
    /\ f_ret = NoResult
    /\ blocked_flag = FALSE
    /\ GateIdle
    /\ CrawlIdle
    /\ RunIdle
    /\ JalurIdle
    /\ UrlIdle
    /\ ExtractIdle
    /\ GeminiIdle
    /\ BrowserIdle
    /\ ValidateIdle
    /\ SiteIdle
    /\ BundleIdle
    /\ TeardownIdle

\* One pass of the loop body with the result r of fetcher.fetch(url)
AttemptWith(page, r) ==
    /\ f_pages' = Append(f_pages, page)
    /\ f_results' = Append(f_results, r)
    /\ IF IsGoodResult(r)
       THEN /\ f_ret' = r
            /\ f_pc' = "returned"
            /\ UNCHANGED <<f_t, f_sleeps>>
       ELSE IF _looks_blocked(r)
       THEN /\ f_sleeps' = Append(f_sleeps, <<f_t + 1, f_base_sleep * (f_t + 1)>>)
            /\ f_t' = f_t + 1
            /\ UNCHANGED <<f_ret, f_pc>>
       ELSE /\ f_ret' = r
            /\ f_pc' = "returned"
            /\ UNCHANGED <<f_t, f_sleeps>>

\* for t in range(tries): r = fetcher.fetch(url); ...
FetchAttempt ==
    /\ f_pc = "loop"
    /\ HasAttemptLeft(f_t, f_tries)
    /\ \E page \in Pages : AttemptWith(page, fetch_of[page])
    /\ UNCHANGED <<f_tries, f_base_sleep, blocked_flag, outsideFetch>>

\* the loop is through: return last
FetchExhausted ==
    /\ f_pc = "loop"
    /\ ~HasAttemptLeft(f_t, f_tries)
    /\ f_ret' = IF f_results = <<>> THEN NoResult ELSE f_results[Len(f_results)]
    /\ f_pc' = "returned"
    /\ UNCHANGED <<f_tries, f_base_sleep, f_t, f_pages, f_results, f_sleeps,
                   blocked_flag, outsideFetch>>

\* bundle_text: if not r: continue; if _looks_blocked(r): blocked_flag = True
BundleAfterFetch ==
    /\ f_pc = "returned"
    /\ blocked_flag' = (blocked_flag \/ (~f_ret.none /\ _looks_blocked(f_ret)))
    /\ f_pc' = "bundled"
    /\ UNCHANGED <<f_tries, f_base_sleep, f_t, f_pages, f_results, f_sleeps,
                   f_ret, outsideFetch>>

NextFetch ==
    \/ FetchAttempt
    \/ FetchExhausted
    \/ BundleAfterFetch

SpecFetch == InitFetch /\ [][NextFetch]_vars

\* ------------------------------------------------------------------------
\* URL canonicalisation and the same-site test of the information scraper
\* (informasi-scraper/app/utils.py), side by side with those of the
\* admission scraper and with run_all.norm_url
\* ------------------------------------------------------------------------

\* informasi-scraper utils.normalize_url: strip, drop the fragment, keep the
\* query
info_normalize_url(u) ==
    IF u = <<>> THEN <<>> ELSE urldefrag(Strip(u))

RECURSIVE RemoveAll(_, _)
\* s.replace(lit, "")
RemoveAll(s, lit) ==
    IF s = <<>> THEN <<>>
    ELSE IF StartsWithAt(s, 1, lit)
    THEN RemoveAll(SubSeq(s, Len(lit) + 1, Len(s)), lit)
    ELSE <<Head(s)>> \o RemoveAll(Tail(s), lit)

\* "www."
Lit_www_dot == <<"w","w","w",".">>

\* netloc.split(":")[0].lower()
HostNoPort(netloc) == Lower(SplitOn(netloc, ":")[1])

\* bn.endswith(an) or an.endswith(bn), then the same with every "www."
\* removed
InfoSameHost(an, bn) ==
    \/ EndsWith(bn, an)
    \/ EndsWith(an, bn)
    \/ EndsWith(RemoveAll(bn, Lit_www_dot), RemoveAll(an, Lit_www_dot))
    \/ EndsWith(RemoveAll(an, Lit_www_dot), RemoveAll(bn, Lit_www_dot))

\* informasi-scraper utils.same_site(seed, u)
info_same_site(seed, u) ==
    IF urlparse(seed).netloc = <<>> \/ urlparse(u).netloc = <<>> THEN FALSE
    ELSE InfoSameHost(HostNoPort(urlparse(seed).netloc),
                      HostNoPort(urlparse(u).netloc))

RECURSIVE VisitQueue(_, _)
\* The loop over the queue: what was visited is skipped, anything else is
\* added to the visited set and fetched.
VisitQueue(queue, seen) ==
    IF queue = <<>> THEN <<>>
    ELSE IF Head(queue) \in seen THEN VisitQueue(Tail(queue), seen)
    ELSE <<Head(queue)>> \o VisitQueue(Tail(queue), seen \cup {Head(queue)})

\* one URL under the three canonicalisers
Canonical(u) ==
    [jalur |-> normalize_url(u), info |-> info_normalize_url(u), key |-> norm_url(u)]

\* each canonical form under its own canonicaliser once more
CanonicalAgain(n) ==
    [jalur |-> normalize_url(n.jalur), info |-> info_normalize_url(n.info),
     key |-> norm_url(n.key)]


\* 'https://k.ac.id/pmb'
U_pmb == <<"h","t","t","p","s",":","/","/","k",".","a","c",".","i","d","/","p","m","b">>

\* 'https://k.ac.id/pmb/'
U_pmb_slash == <<"h","t","t","p","s",":","/","/","k",".","a","c",".","i","d","/","p","m","b","/">>

\* ' https://k.ac.id/pmb '
U_padded == <<" ","h","t","t","p","s",":","/","/","k",".","a","c",".","i","d","/","p","m","b"," ">>

\* 'https://x.ac.id/a?b=1&utm_source=y#frag'
U_example == <<"h","t","t","p","s",":","/","/","x",".","a","c",".","i","d","/","a","?","b","=","1","&","u","t","m","_","s","o","u","r","c","e","=","y","#","f","r","a","g">>

\* 'https://x.ac.id/a?b=1'
U_example_clean == <<"h","t","t","p","s",":","/","/","x",".","a","c",".","i","d","/","a","?","b","=","1">>

\* 'https://x.ac.id/a?GCLID=7&c=2'
U_upper_key == <<"h","t","t","p","s",":","/","/","x",".","a","c",".","i","d","/","a","?","G","C","L","I","D","=","7","&","c","=","2">>

\* 'https://k.ac.id/a #f'
U_space_frag == <<"h","t","t","p","s",":","/","/","k",".","a","c",".","i","d","/","a"," ","#","f">>

\* 'https://www.example.ac.id'
U_www == <<"h","t","t","p","s",":","/","/","w","w","w",".","e","x","a","m","p","l","e",".","a","c",".","i","d">>

\* 'https://pmb.example.ac.id/x'
U_sub == <<"h","t","t","p","s",":","/","/","p","m","b",".","e","x","a","m","p","l","e",".","a","c",".","i","d","/","x">>

\* 'https://ui.ac.id'
U_ui == <<"h","t","t","p","s",":","/","/","u","i",".","a","c",".","i","d">>

\* 'https://ui.ac.id:8080/'
U_ui_port == <<"h","t","t","p","s",":","/","/","u","i",".","a","c",".","i","d",":","8","0","8","0","/">>

\* 'https://pmb.ui.ac.id/'
U_pmb_ui == <<"h","t","t","p","s",":","/","/","p","m","b",".","u","i",".","a","c",".","i","d","/">>

\* 'https://notui.com'
U_notui_com == <<"h","t","t","p","s",":","/","/","n","o","t","u","i",".","c","o","m">>

\* 'https://notui.ac.id'
U_notui == <<"h","t","t","p","s",":","/","/","n","o","t","u","i",".","a","c",".","i","d">>

UrlPool ==
    {U_pmb, U_pmb_slash, U_padded, U_example,
     U_example_clean, U_upper_key, U_space_frag, U_www,
     U_sub, U_ui, U_ui_port, U_pmb_ui,
     U_notui_com, U_notui}


InitUrl ==
    /\ url_pc = "input"
    /\ url_a \in UrlPool
    /\ url_b \in UrlPool
    /\ url_na = [jalur |-> <<>>, info |-> <<>>, key |-> <<>>]
    /\ url_nb = [jalur |-> <<>>, info |-> <<>>, key |-> <<>>]
    /\ url_na2 = [jalur |-> <<>>, info |-> <<>>, key |-> <<>>]
    /\ url_same = [jalur |-> FALSE, info |-> FALSE]
    /\ url_fetched = [jalur |-> <<>>, info |-> <<>>]
    /\ GateIdle
    /\ CrawlIdle
    /\ RunIdle
    /\ JalurIdle
    /\ FetchIdle
    /\ ExtractIdle
    /\ GeminiIdle
    /\ BrowserIdle
    /\ ValidateIdle
    /\ SiteIdle
    /\ BundleIdle
    /\ TeardownIdle

\* normalize_url(u) of either scraper and norm_url(u), for both URLs
UrlNormalize ==
    /\ url_pc = "input"
    /\ url_na' = Canonical(url_a)
    /\ url_nb' = Canonical(url_b)
    /\ url_pc' = "normalized"
    /\ UNCHANGED <<url_a, url_b, url_na2, url_same, url_fetched, outsideUrl>>

\* the canonical form of url_a put through the same function again
UrlRenormalize ==
    /\ url_pc = "normalized"
    /\ url_na2' = CanonicalAgain(url_na)
    /\ url_pc' = "renormalized"
    /\ UNCHANGED <<url_a, url_b, url_na, url_nb, url_same, url_fetched, outsideUrl>>

\* crawl_site: same_site(u, start); pick_candidates: same_site(seed_url, href)
UrlSameSite ==
    /\ url_pc = "renormalized"
    /\ url_same' = [jalur |-> same_site(url_b, url_a),
                    info |-> info_same_site(url_a, url_b)]
    /\ url_pc' = "compared"
    /\ UNCHANGED <<url_a, url_b, url_na, url_nb, url_na2, url_fetched, outsideUrl>>

\* crawl_site and bundle_text with both URLs in the queue
UrlVisit ==
    /\ url_pc = "compared"
    /\ url_fetched' = [jalur |-> VisitQueue(<<url_na.jalur, url_nb.jalur>>, {}),
                       info |-> VisitQueue(<<url_na.info, url_nb.info>>, {})]
    /\ url_pc' = "visited"
    /\ UNCHANGED <<url_a, url_b, url_na, url_nb, url_na2, url_same, outsideUrl>>

NextUrl ==
    \/ UrlNormalize
    \/ UrlRenormalize
    \/ UrlSameSite
    \/ UrlVisit

SpecUrl == InitUrl /\ [][NextUrl]_vars

\* ------------------------------------------------------------------------
\* extract_links_and_assets, as a state machine: one call on one page
\* ------------------------------------------------------------------------

Pages_extract ==
    [anchors : SeqsUpTo(Anchors, MaxPageAnchors),
     embeds  : SeqsUpTo(Embeds, MaxEmbeds),
     imgs    : SeqsUpTo(Imgs, MaxImgs),
     text    : BodyTexts]

InitExtract ==
    /\ x_pc = "page"
    /\ x_page \in Pages_extract
    /\ x_out = <<>>
    /\ GateIdle
    /\ CrawlIdle
    /\ RunIdle
    /\ JalurIdle
    /\ FetchIdle
    /\ UrlIdle
    /\ GeminiIdle
    /\ BrowserIdle
    /\ ValidateIdle
    /\ SiteIdle
    /\ BundleIdle
    /\ TeardownIdle

Extract ==
    /\ x_pc = "page"
    /\ x_out' = extract_page(x_page)
    /\ x_pc' = "extracted"
    /\ UNCHANGED <<x_page, outsideExtract>>

NextExtract == Extract

SpecExtract == InitExtract /\ [][NextExtract]_vars

\* ---------------------------------------------------------------------------
\* GeminiJSON.extract_json and GeminiJSON.extract_json_browse
\* (informasi-scraper/app/gemini_client.py)
\* ---------------------------------------------------------------------------

\* "503"
Lit_503 == <<"5","0","3">>

\* "unavailable"
Lit_unavailable == <<"u","n","a","v","a","i","l","a","b","l","e">>

\* "overloaded"
Lit_overloaded == <<"o","v","e","r","l","o","a","d","e","d">>

\* "429"
Lit_429 == <<"4","2","9">>

\* "resource_exhausted"
Lit_resource_exhausted == <<"r","e","s","o","u","r","c","e","_","e","x","h","a","u","s","t","e","d">>

\* "503 UNAVAILABLE. The model is overloaded."
Msg_503 == <<"5","0","3"," ","U","N","A","V","A","I","L","A","B","L","E","."," ","T","h","e"," ","m","o","d","e","l"," ","i","s"," ","o","v","e","r","l","o","a","d","e","d",".">>

\* "500 INTERNAL"
Msg_500 == <<"5","0","0"," ","I","N","T","E","R","N","A","L">>

\* "429 RESOURCE_EXHAUSTED"
Msg_429 == <<"4","2","9"," ","R","E","S","O","U","R","C","E","_","E","X","H","A","U","S","T","E","D">>

\* "400 INVALID_ARGUMENT"
Msg_400 == <<"4","0","0"," ","I","N","V","A","L","I","D","_","A","R","G","U","M","E","N","T">>

\* "Connection reset by peer"
Msg_conn_reset == <<"C","o","n","n","e","c","t","i","o","n"," ","r","e","s","e","t"," ","b","y"," ","p","e","e","r">>

\* "{"a": 1}"
Text_object == <<"{","\"","a","\"",":"," ","1","}">>

\* "Maaf, saya"
Text_junk == <<"M","a","a","f",","," ","s","a","y","a">>

\* The largest max_retries a caller passes.
MaxRetries == 2

\* The token counts a response reports in usage_metadata.
TokenCounts == {0, 5}

\* self.models: the primary model, then the three fixed fallbacks.
GeminiModels == <<"gemini-2.5-flash", "gemini-2.0-flash-lite", "gemini-1.5-flash", "gemini-1.5-pro">>

\* _safe_json_loads: {} for an empty text and for a text json.loads rejects.
_safe_json_loads(s) ==
    IF s = <<>> THEN "empty"
    ELSE IF s = Text_object THEN "object"
    ELSE "empty"

\* What one generate_content call does: it returns a response, or raises
\* ServerError, ClientError or another exception.
Response(text, tokens) == [cls |-> "response", msg |-> text, tokens |-> tokens]

Raised(cls, msg) == [cls |-> cls, msg |-> msg, tokens |-> 0]

Outcomes ==
    {Response(t, n) : t \in {Text_object, Text_junk, <<>>}, n \in TokenCounts}
        \cup {Raised("ServerError", Msg_503), Raised("ServerError", Msg_500),
              Raised("ClientError", Msg_429), Raised("ClientError", Msg_400),
              Raised("Exception", Msg_conn_reset)}

\* "503" in msg or "unavailable" in msg or "overloaded" in msg
IsOverloaded(e) ==
    \E k \in {Lit_503, Lit_unavailable, Lit_overloaded} : Contains(k, Lower(e.msg))

\* "429" in msg or "resource_exhausted" in msg
IsRateLimited(e) ==
    \E k \in {Lit_429, Lit_resource_exhausted} : Contains(k, Lower(e.msg))

\* The except branches that end with continue.
IsRetried(o) ==
    \/ o.cls = "ServerError"
    \/ o.cls = "ClientError" /\ IsRateLimited(o)
    \/ o.cls = "Exception"

\* The max_sleep the branch passes to self._sleep.
MaxSleepOf(o) ==
    IF (o.cls = "ServerError" /\ IsOverloaded(o)) \/ o.cls = "ClientError" THEN 60 ELSE 30

\* _sleep without its jitter: min(max_sleep, 2 ** (attempt - 1)).
_sleep(attempt, max_sleep) == Min({max_sleep, 2 ^ (attempt - 1)})

\* for attempt in range(1, max_retries + 1), with one attempt too many
HasRetryLeft_one_more(attempt, max_retries) == attempt <= max_retries + 1

\* for attempt in range(1, max_retries + 1)
HasRetryLeft(attempt, max_retries) == attempt <= max_retries

InitGemini ==
    /\ gm_pc = "loop"
    /\ gm_fn \in {"extract_json", "extract_json_browse"}
    /\ gm_models = GeminiModels
    /\ gm_max_retries \in 0..MaxRetries
    /\ gm_mi = 1
    /\ gm_attempt = 1
    /\ gm_calls = <<>>
    /\ gm_sleeps = <<>>
    /\ gm_usage = 0
    /\ gm_ret = "none"
    /\ GateIdle
    /\ CrawlIdle
    /\ RunIdle
    /\ JalurIdle
    /\ FetchIdle
    /\ UrlIdle
    /\ ExtractIdle
    /\ BrowserIdle
    /\ ValidateIdle
    /\ SiteIdle
    /\ BundleIdle
    /\ TeardownIdle

\* One pass of the inner loop body: the call, then return or sleep and continue.
GeminiCallWith(o) ==
    /\ gm_calls' = Append(gm_calls, <<gm_mi, gm_attempt, o.cls, o.msg>>)
    /\ IF o.cls = "response"
       THEN /\ gm_usage' = gm_usage + o.tokens
            /\ gm_ret' = _safe_json_loads(o.msg)
            /\ gm_pc' = "returned"
            /\ UNCHANGED <<gm_attempt, gm_sleeps>>
       ELSE IF IsRetried(o)
       THEN /\ gm_sleeps' = Append(gm_sleeps, <<gm_attempt, _sleep(gm_attempt, MaxSleepOf(o))>>)
            /\ gm_attempt' = gm_attempt + 1
            /\ UNCHANGED <<gm_usage, gm_ret, gm_pc>>
       ELSE /\ gm_ret' = "empty"
            /\ gm_pc' = "returned"
            /\ UNCHANGED <<gm_usage, gm_attempt, gm_sleeps>>

GeminiCall ==
    /\ gm_pc = "loop"
    /\ gm_mi <= Len(gm_models)
    /\ HasRetryLeft(gm_attempt, gm_max_retries)
    /\ \E o \in Outcomes : GeminiCallWith(o)
    /\ UNCHANGED <<gm_fn, gm_models, gm_max_retries, gm_mi, outsideGemini>>

\* The inner loop is over: the outer loop moves to the next model.
GeminiSwitchModel ==
    /\ gm_pc = "loop"
    /\ gm_mi <= Len(gm_models)
    /\ ~HasRetryLeft(gm_attempt, gm_max_retries)
    /\ gm_mi' = gm_mi + 1
    /\ gm_attempt' = 1
    /\ UNCHANGED <<gm_pc, gm_fn, gm_models, gm_max_retries, gm_calls, gm_sleeps, gm_usage,
                   gm_ret, outsideGemini>>

\* The outer loop is over: return {}, total_usage.
GeminiFailed ==
    /\ gm_pc = "loop"
    /\ gm_mi > Len(gm_models)
    /\ gm_ret' = "empty"
    /\ gm_pc' = "returned"
    /\ UNCHANGED <<gm_fn, gm_models, gm_max_retries, gm_mi, gm_attempt, gm_calls, gm_sleeps,
                   gm_usage, outsideGemini>>

NextGemini == GeminiCall \/ GeminiSwitchModel \/ GeminiFailed

SpecGemini == InitGemini /\ [][NextGemini]_vars

\* ---------------------------------------------------------------------------
\* PlaywrightFetcher.__enter__, fetch and __exit__ under main() of run_all.py
\* (informasi-scraper/app/fetcher.py, informasi-scraper/app/run_all.py)
\* ---------------------------------------------------------------------------

\* The most fetch calls the bundles of one seed make.
MaxFetchesPerSeed == 2

\* How many fetches the log holds for a seed.
FetchesOf(seed_no) == Cardinality({n \in 1..Len(b_fetches) : b_fetches[n].seed = seed_no})

\* __init__: no browser, no context.
InitBrowser ==
    /\ b_pc = "enter"
    /\ b_seed = 1
    /\ b_contexts = 0
    /\ b_context = 0
    /\ b_page = 0
    /\ b_jar = <<>>
    /\ b_fetches = <<>>
    /\ GateIdle
    /\ CrawlIdle
    /\ RunIdle
    /\ JalurIdle
    /\ FetchIdle
    /\ UrlIdle
    /\ ExtractIdle
    /\ GeminiIdle
    /\ ValidateIdle
    /\ SiteIdle
    /\ BundleIdle
    /\ TeardownIdle

\* with PlaywrightFetcher() as fetcher: __enter__ creates the one context.
BrowserEnter ==
    /\ b_pc = "enter"
    /\ b_contexts' = b_contexts + 1
    /\ b_context' = b_contexts + 1
    /\ b_jar' = Append(b_jar, {})
    /\ b_pc' = "seed"
    /\ UNCHANGED <<b_seed, b_page, b_fetches, outsideBrowser>>

\* fetch, up to the page being open: page = self._context.new_page().
BrowserOpenPage ==
    /\ b_pc = "seed"
    /\ b_seed <= NumSeeds
    /\ FetchesOf(b_seed) < MaxFetchesPerSeed
    /\ b_page' = b_context
    /\ b_pc' = "fetching"
    /\ UNCHANGED <<b_seed, b_contexts, b_context, b_jar, b_fetches, outsideBrowser>>

\* fetch, from goto to page.close(): the page loads inside its context, sees
\* what the context holds, may store cookies of its own, and is closed.
BrowserLoadAndClose ==
    /\ b_pc = "fetching"
    /\ b_fetches' = Append(b_fetches,
                           [seed |-> b_seed, context |-> b_page, visible |-> b_jar[b_page]])
    /\ \E stores \in BOOLEAN :
          b_jar' = IF stores THEN [b_jar EXCEPT ![b_page] = @ \cup {b_seed}] ELSE b_jar
    /\ b_page' = 0
    /\ b_pc' = "seed"
    /\ UNCHANGED <<b_seed, b_contexts, b_context, outsideBrowser>>

\* The loop body of main() ends (or the seed was skipped): next seed.
BrowserNextSeed ==
    /\ b_pc = "seed"
    /\ b_seed <= NumSeeds
    /\ b_seed' = b_seed + 1
    /\ UNCHANGED <<b_pc, b_contexts, b_context, b_page, b_jar, b_fetches, outsideBrowser>>

\* __exit__: self._context.close(), self._browser.close().
BrowserExit ==
    /\ b_pc = "seed"
    /\ b_seed > NumSeeds
    /\ b_context' = 0
    /\ b_pc' = "exited"
    /\ UNCHANGED <<b_seed, b_contexts, b_page, b_jar, b_fetches, outsideBrowser>>

NextBrowser ==
    \/ BrowserEnter
    \/ BrowserOpenPage
    \/ BrowserLoadAndClose
    \/ BrowserNextSeed
    \/ BrowserExit

SpecBrowser == InitBrowser /\ [][NextBrowser]_vars

\* ---------------------------------------------------------------------------
\* jalur_pendaftaran-scraper: the candidate loop of process_one, validator.py
\* and the saves of main() (run.py)
\* ---------------------------------------------------------------------------

\* 'schedule'
Lit_schedule == <<"s","c","h","e","d","u","l","e">>

\* 'gelombang'
Lit_gelombang == <<"g","e","l","o","m","b","a","n","g">>

\* 'periode'
Lit_periode == <<"p","e","r","i","o","d","e">>

\* 'tahun'
Lit_tahun == <<"t","a","h","u","n">>

\* 'akademik'
Lit_akademik == <<"a","k","a","d","e","m","i","k">>

\* '"is_valid": true'
Lit_is_valid_true == <<"\"","i","s","_","v","a","l","i","d","\"",":"," ","t","r","u","e">>

\* 'Jadwal PMB'
Page_jadwal == <<"J","a","d","w","a","l"," ","P","M","B">>

\* 'Jalur SNBP 2025'
Page_jalur_2025 == <<"J","a","l","u","r"," ","S","N","B","P"," ","2","0","2","5">>

\* 'Gelombang 2 dibuka'
Page_gelombang == <<"G","e","l","o","m","b","a","n","g"," ","2"," ","d","i","b","u","k","a">>

\* '{"is_valid": true, "reason": "memuat jalur"}'
Raw_valid == <<"{","\"","i","s","_","v","a","l","i","d","\"",":"," ","t","r","u","e",","," ","\"","r","e","a","s","o","n","\"",":"," ","\"","m","e","m","u","a","t"," ","j","a","l","u","r","\"","}">>

\* '{"is_valid": false, "reason": "berita"}'
Raw_invalid == <<"{","\"","i","s","_","v","a","l","i","d","\"",":"," ","f","a","l","s","e",","," ","\"","r","e","a","s","o","n","\"",":"," ","\"","b","e","r","i","t","a","\"","}">>

\* 'Berikut hasilnya: {"is_valid": true}'
Raw_prefixed == <<"B","e","r","i","k","u","t"," ","h","a","s","i","l","n","y","a",":"," ","{","\"","i","s","_","v","a","l","i","d","\"",":"," ","t","r","u","e","}">>

\* 'Halaman ini valid.'
Raw_prose == <<"H","a","l","a","m","a","n"," ","i","n","i"," ","v","a","l","i","d",".">>

\* '[{"is_valid": true}]'
Raw_array == <<"[","{","\"","i","s","_","v","a","l","i","d","\"",":"," ","t","r","u","e","}","]">>

\* One alternative of DATE_HINT_RE matched at position i of the lower-cased
\* text ls: 20\d{2}, gelombang\s*\d+, periode\s*\d+ or tahun\s*akademik, with
\* the \b on both sides.  \d+ is greedy and a shorter run would end before a
\* digit, where no \b is, so only the whole run can match.
MatchDateHintAt(ls, i) ==
    LET bounded(e) == e > i /\ (e > Len(ls) \/ ~IsWordChar(ls[e]))
        numbered(word) ==
            /\ StartsWithAt(ls, i, word)
            /\ LET d == RunEnd(ls, i + Len(word), IsSpace)
                   e == RunEnd(ls, d, IsDigit)
               IN  e > d /\ bounded(e)
    IN  /\ (i = 1 \/ ~IsWordChar(ls[i - 1]))
        /\ \/ /\ StartsWithAt(ls, i, <<"2","0">>)
              /\ i + 3 <= Len(ls)
              /\ IsDigit(ls[i + 2])
              /\ IsDigit(ls[i + 3])
              /\ bounded(i + 4)
           \/ numbered(Lit_gelombang)
           \/ numbered(Lit_periode)
           \/ /\ StartsWithAt(ls, i, Lit_tahun)
              /\ LET a == RunEnd(ls, i + Len(Lit_tahun), IsSpace)
                 IN  StartsWithAt(ls, a, Lit_akademik) /\ bounded(a + Len(Lit_akademik))

\* bool(DATE_HINT_RE.search(text))
DATE_HINT_RE_search(text) ==
    LET ls == Lower(text)
    IN  \E i \in 1..Len(ls) : MatchDateHintAt(ls, i)

_fast_local_gate(text) ==
    LET t == Lower(text)
    IN  \/ \E k \in {Lit_jadwal, Lit_schedule, Lit_timeline} : Contains(k, t)
        \/ JALUR_WORD_RE_search(t) /\ DATE_HINT_RE_search(t)

\* What json.loads makes of an answer: an object, another JSON value, or an
\* error.  The answers are one value with blanks around it at most, so the
\* first and last characters decide.
json_loads(raw) ==
    LET s == Strip(raw)
    IN  IF s = <<>> THEN "error"
        ELSE IF s[1] = "{" /\ s[Len(s)] = "}" THEN "object"
        ELSE IF s[1] = "[" /\ s[Len(s)] = "]" THEN "array"
        ELSE "error"

\* a verdict read without looking at the kind of the parsed value
VerdictOf_lenient(raw) ==
    IF Contains(Lit_is_valid_true, raw) THEN "valid"
    ELSE IF json_loads(raw) = "object" THEN "invalid"
    ELSE "uncertain"

\* The try block of validate_text_with_gemini and validate_bytes_with_gemini:
\* obj.get raises on a value that is no object, and every exception gives
\* "uncertain".
VerdictOf(raw) ==
    IF json_loads(raw) = "object"
    THEN IF Contains(Lit_is_valid_true, raw) THEN "valid" ELSE "invalid"
    ELSE "uncertain"

\* the continue without the flag
SkipsExtraction_ignoring_flag(verdict, validate_only) == verdict # "valid"

\* if verdict != "valid" or args.validate_only: continue
SkipsExtraction(verdict, validate_only) == verdict # "valid" \/ validate_only

\* What the Oracle answers to a validation prompt.
RawAnswers == {Raw_valid, Raw_invalid, Raw_prefixed, Raw_prose, Raw_array, <<>>}

\* The texts read from a fetched page or PDF (the last: nothing readable).
PageTexts == {Page_jadwal, Page_jalur_2025, Page_gelombang, Text_jalur, <<>>}

CandidateKinds == {"html", "pdf", "image"}

\* fr as fetch_html_async returns it, with html_to_text / read_pdf_text applied.
FetchResults ==
    {[ok |-> TRUE, content |-> TRUE, text |-> t] : t \in PageTexts}
        \cup {[ok |-> FALSE, content |-> FALSE, text |-> <<>>]}

ValidatedLink(cand, kind, verdict) == [cand |-> cand, kind |-> kind, verdict |-> verdict]

\* One generate_text / generate_with_bytes call: what it was for, and the text
\* it returned or that it raised.
OracleCall(cand, purpose, raw, raised) ==
    [cand |-> cand, purpose |-> purpose, raw |-> raw, raised |-> raised]

InitValidate ==
    /\ v_pc = "next"
    /\ v_validate_only \in BOOLEAN
    /\ v_cands \in SeqsUpTo(CandidateKinds, MaxCands)
    /\ v_pos = 0
    /\ v_fr = NoFetch
    /\ v_oracle = <<>>
    /\ v_validated = <<>>
    /\ v_items = <<>>
    /\ v_files = <<>>
    /\ GateIdle
    /\ CrawlIdle
    /\ RunIdle
    /\ JalurIdle
    /\ FetchIdle
    /\ UrlIdle
    /\ ExtractIdle
    /\ GeminiIdle
    /\ BrowserIdle
    /\ SiteIdle
    /\ BundleIdle
    /\ TeardownIdle

\* the candidate at hand
VCand == v_pos + 1

VKind == v_cands[VCand]

\* fr = await fetch_html_async(c.url)
VFetch ==
    /\ v_pc = "next"
    /\ v_pos < Len(v_cands)
    /\ \E fr \in FetchResults :
          /\ (VKind = "image" /\ fr.ok) => fr.text = <<>>
          /\ v_fr' = fr
    /\ v_pc' = "fetched"
    /\ UNCHANGED <<v_validate_only, v_cands, v_pos, v_oracle, v_validated, v_items,
                   v_files, outsideValidate>>

\* except Exception: one "uncertain" record, and the loop goes on.
VRaiseCaught(calls) ==
    /\ v_oracle' = v_oracle \o calls
    /\ v_validated' = Append(v_validated, ValidatedLink(VCand, VKind, "uncertain"))
    /\ v_pos' = v_pos + 1
    /\ v_fr' = NoFetch
    /\ v_pc' = "next"
    /\ UNCHANGED <<v_validate_only, v_cands, v_items, v_files, outsideValidate>>

\* fetch_html_async raises
VFetchRaise ==
    /\ v_pc = "next"
    /\ v_pos < Len(v_cands)
    /\ VRaiseCaught(<<>>)

\* pdf and image: if not fr.ok or not fr.content: "invalid", continue
VFetchFailed ==
    /\ v_pc = "fetched"
    /\ VKind # "html"
    /\ ~(v_fr.ok /\ v_fr.content)
    /\ v_validated' = Append(v_validated, ValidatedLink(VCand, VKind, "invalid"))
    /\ v_pos' = v_pos + 1
    /\ v_fr' = NoFetch
    /\ v_pc' = "next"
    /\ UNCHANGED <<v_validate_only, v_cands, v_oracle, v_items, v_files, outsideValidate>>

\* Is the verdict asked with the bytes of the content (an image, a PDF without
\* readable text) or with the text?
ByBytes == VKind = "image" \/ (VKind = "pdf" /\ v_fr.text = <<>>)

\* validate_text_with_gemini stops at the local gate without an Oracle call.
StoppedByGate == ~ByBytes /\ ~_fast_local_gate(v_fr.text)

\* After the verdict: the record is appended, and the loop either continues
\* with the next candidate or goes on to the extraction.
VVerdict(verdict, calls) ==
    /\ v_oracle' = v_oracle \o calls
    /\ v_validated' = Append(v_validated, ValidatedLink(VCand, VKind, verdict))
    /\ IF SkipsExtraction(verdict, v_validate_only)
       THEN /\ v_pos' = v_pos + 1
            /\ v_fr' = NoFetch
            /\ v_pc' = "next"
       ELSE /\ v_pc' = "extract"
            /\ UNCHANGED <<v_pos, v_fr>>
    /\ UNCHANGED <<v_validate_only, v_cands, v_items, v_files, outsideValidate>>

\* validate_text_with_gemini / validate_bytes_with_gemini, to_validated,
\* all_validated.append
VValidate ==
    /\ v_pc = "fetched"
    /\ VKind = "html" \/ (v_fr.ok /\ v_fr.content)
    /\ IF StoppedByGate
       THEN VVerdict("invalid", <<>>)
       ELSE \E raw \in RawAnswers :
               VVerdict(VerdictOf(raw), <<OracleCall(VCand, "validate", raw, FALSE)>>)

\* the Oracle call of the validation raises
VValidateRaise ==
    /\ v_pc = "fetched"
    /\ VKind = "html" \/ (v_fr.ok /\ v_fr.content)
    /\ ~StoppedByGate
    /\ VRaiseCaught(<<OracleCall(VCand, "validate", <<>>, TRUE)>>)

\* extract_jalur_items_from_text / _from_bytes; the items that pass
\* is_valid_jalur_object are appended to all_jalur_items
VExtract ==
    /\ v_pc = "extract"
    /\ v_oracle' = Append(v_oracle, OracleCall(VCand, "extract", <<>>, FALSE))
    /\ \E n \in 0..1 : v_items' = v_items \o [k \in 1..n |-> VCand]
    /\ v_pos' = v_pos + 1
    /\ v_fr' = NoFetch
    /\ v_pc' = "next"
    /\ UNCHANGED <<v_validate_only, v_cands, v_validated, v_files, outsideValidate>>

\* the Oracle call of the extraction raises
VExtractRaise ==
    /\ v_pc = "extract"
    /\ VRaiseCaught(<<OracleCall(VCand, "extract", <<>>, TRUE)>>)

\* the loop is through, gather returns
VDone ==
    /\ v_pc = "next"
    /\ v_pos = Len(v_cands)
    /\ v_pc' = "done"
    /\ UNCHANGED <<v_validate_only, v_cands, v_pos, v_fr, v_oracle, v_validated,
                   v_items, v_files, outsideValidate>>

\* main(): the three link files, and without --validate-only the items file
VSave ==
    /\ v_pc = "done"
    /\ v_files' = <<"candidates_all.json", "validated_links.json", "valid_links_only.json">>
                     \o (IF v_validate_only THEN <<>> ELSE <<"jalur_items_extracted.json">>)
    /\ v_pc' = "saved"
    /\ UNCHANGED <<v_validate_only, v_cands, v_pos, v_fr, v_oracle, v_validated,
                   v_items, outsideValidate>>

NextValidate ==
    \/ VFetch
    \/ VFetchRaise
    \/ VFetchFailed
    \/ VValidate
    \/ VValidateRaise
    \/ VExtract
    \/ VExtractRaise
    \/ VDone
    \/ VSave

SpecValidate == InitValidate /\ [][NextValidate]_vars

\* ---------------------------------------------------------------------------
\* crawl_site on one site: the link graph is fixed, every fetch of a page
\* serves the anchors the site holds for it (or fails)
\* ---------------------------------------------------------------------------

\* The largest max_pages tried on a site.
MaxSitePages == 5

\* The pages of the small sites, and how many links one of their pages holds.
SmallPages == {Site_pmb, Page_a, Page_b}

MaxOutLinks == 2

NumSitePages == Len(SitePageSeq)

SitePages == Range(SitePageSeq)

\* the page that follows page number k on a ring of all the pages
NextOnRing(k) == SitePageSeq[(k % NumSitePages) + 1]

PageNo(u) == CHOOSE k \in 1..NumSitePages : SitePageSeq[k] = u

\* Every link graph over the small pages with at most MaxOutLinks links a
\* page: self-links and cycles of every length are among them.
SmallSites ==
    {[menu |-> <<Site_pmb>>,
      links |-> [u \in SitePages |-> IF u \in SmallPages THEN f[u] ELSE <<>>]] :
        f \in [SmallPages -> DistinctSeqsUpTo(SmallPages, MaxOutLinks)]}

\* Sites over all the pages: a chain, a ring, and a ring whose pages also
\* link back to the entry page, to another site and to a hard-rejected page;
\* with one entry point in the menu, with two, or with none.
LongLinks ==
    {[u \in SitePages |-> IF PageNo(u) < NumSitePages THEN <<NextOnRing(PageNo(u))>> ELSE <<>>],
     [u \in SitePages |-> <<NextOnRing(PageNo(u))>>],
     [u \in SitePages |-> <<Href_offsite, Site_pmb, Href_berita, NextOnRing(PageNo(u)), u>>]}

LongSites ==
    {[menu |-> m, links |-> l] :
        m \in {<<Site_pmb>>, <<Href_offsite, Page_c, Site_pmb>>, <<Href_offsite, Href_info>>},
        l \in LongLinks}

Sites == SmallSites \cup LongSites

\* the anchors the site holds for a page
AnchorsOf(u) == [k \in 1..Len(site.links[u]) |-> SiteAnchor(site.links[u][k])]

InitSite ==
    /\ site \in Sites
    /\ c_pc = "seeded"
    /\ start = normalize_url(Site_home)
    /\ max_pages \in 1..MaxSitePages
    /\ visited = {}
    /\ q = <<>>
    /\ candidates = <<>>
    /\ best = <<>>
    /\ fetched = <<>>
    /\ discovered = <<>>
    /\ fetch_depths = <<>>
    /\ GateIdle
    /\ RunIdle
    /\ JalurIdle
    /\ FetchIdle
    /\ UrlIdle
    /\ ExtractIdle
    /\ GeminiIdle
    /\ BrowserIdle
    /\ ValidateIdle
    /\ BundleIdle
    /\ TeardownIdle

\* STEP 1 on the site's navigation bar.
SiteAbort == AbortWith(site.menu)

SiteSeed == SeedWith(site.menu)

\* One iteration that visits the popped page of the site.
SiteVisit ==
    /\ c_pc = "expanding"
    /\ LoopCondition
    /\ ~SkipsPopped(Head(q)[1], Head(q)[2])
    /\ VisitWith(AnchorsOf(Head(q)[1]))

NextSite ==
    \/ SiteAbort
    \/ SiteSeed
    \/ CrawlSkip
    \/ CrawlVisitFailed
    \/ SiteVisit
    \/ CrawlFinish

SpecSite == InitSite /\ [][NextSite]_vars

\* Every fetch returns and the loop goes on: crawl_site keeps taking steps.
SpecSiteLive == SpecSite /\ WF_vars(NextSite)

\* ---------------------------------------------------------------------------
\* run_all.py: bundle_text(fetcher, seed_url, mode), the multi-hop bundling of
\* the orchestrated run.  A URL of the site is named by its number, the seed is
\* page 1.  A text is kept by its length and by whether it holds one of the
\* keywords of the "visi" early stop; page texts carry no blanks at their ends,
\* so combined.strip() only drops the two leading newlines.
\* ---------------------------------------------------------------------------

\* config.py
MAX_PAGES_VISIT == 10
MAX_INTERNAL_CANDIDATES == 20
MAX_TEXT_PER_PAGE == 20000
MAX_COMBINED_TEXT == 80000

\* bundle_text: the early-stop lengths of the two modes, the length under which
\* a "visi" bundle is thin, and the number of pages the fallback pass may add
INFO_STOP_LEN == 1200
VISI_STOP_LEN == 1800
VISI_THIN_LEN == 1200
FALLBACK_MAX_ADD == 5

\* the pages of a modelled site
NumBundlePages == 16
BundlePages == 1..NumBundlePages

\* the lengths a fetched page text takes
TextLens == {0, 100, 1300, MAX_TEXT_PER_PAGE}

\* the int sequence a..b
Interval(a, b) == [i \in 1..(IF b >= a THEN b - a + 1 ELSE 0) |-> a + i - 1]

\* what pick_candidates returns on each page (no duplicates, at most limit
\* entries): a hub whose pages link back, a chain, a mesh with self and back
\* links, and a single page without links
FanLinks == [p \in BundlePages |-> IF p = 1 THEN Interval(2, NumBundlePages) ELSE <<1, p>>]
ChainLinks == [p \in BundlePages |-> IF p < NumBundlePages THEN <<p + 1>> ELSE <<>>]
MeshLinks ==
    [p \in BundlePages |->
        IF p + 2 <= NumBundlePages THEN <<p + 2, p, p + 1, 1>>
        ELSE IF p + 1 <= NumBundlePages THEN <<p, p + 1, 1>>
        ELSE <<p, 1>>]
LoneLinks == [p \in BundlePages |-> <<>>]
BundleSites == {FanLinks, ChainLinks, MeshLinks, LoneLinks}

\* what _fetch_with_retry hands back: ok, the text, and whether the error
\* names a challenge page
BundleFetches ==
    {r \in [ok : BOOLEAN, len : TextLens, kw : BOOLEAN, challenge : BOOLEAN] :
        /\ (r.len = 0 => ~r.kw)
        /\ (r.ok => ~r.challenge)}

\* _looks_blocked(r) on such a result
BundleLooksBlocked(r) == r.challenge \/ (~r.ok /\ r.len < 80)

\* combined += "\n\n" + r.text, under if r.text
Appended(text, r) ==
    IF r.len > 0 THEN [len |-> text.len + 2 + r.len, kw |-> text.kw \/ r.kw] ELSE text

\* combined[:MAX_COMBINED_TEXT]; the keyword flag is no longer read afterwards
Truncated(text) ==
    [len |-> IF text.len > MAX_COMBINED_TEXT THEN MAX_COMBINED_TEXT ELSE text.len, kw |-> text.kw]

\* len(combined.strip())
StrippedLen(text) == IF text.len >= 2 THEN text.len - 2 ELSE 0

\* for x in cands: if x not in discovered: discovered.append(x)
RECURSIVE Discover(_, _)
Discover(found, cands) ==
    IF cands = <<>> THEN found
    ELSE Discover(IF Head(cands) \in Range(found) THEN found ELSE Append(found, Head(cands)),
                  Tail(cands))

\* the queue test of a candidate, without the look into the queue
IsQueued_visited_only(x, seen, queue) == x \notin seen

\* if x not in visited and x not in queue
IsQueued(x, seen, queue) == x \notin seen /\ x \notin Range(queue)

\* for x in cands: if x not in visited and x not in queue: queue.append(x)
RECURSIVE QueueUp(_, _, _)
QueueUp(queue, seen, cands) ==
    IF cands = <<>> THEN queue
    ELSE QueueUp(IF IsQueued(Head(cands), seen, queue) THEN Append(queue, Head(cands)) ELSE queue,
                 seen, Tail(cands))

\* the early stop at the end of an iteration
EarlyStop(mode, text) ==
    IF mode = "visi" THEN text.len >= VISI_STOP_LEN /\ text.kw
    ELSE text.len >= INFO_STOP_LEN

\* while queue and len(visited) < MAX_PAGES_VISIT and len(combined) < MAX_COMBINED_TEXT
BundleLoopCondition ==
    /\ bt_queue # <<>>
    /\ Cardinality(bt_visited) < MAX_PAGES_VISIT
    /\ bt_combined.len < MAX_COMBINED_TEXT

\* if mode == "visi" and len(combined.strip()) < 1200 and discovered
NeedsFallback(mode, text, found) ==
    mode = "visi" /\ StrippedLen(text) < VISI_THIN_LEN /\ found # <<>>

InitBundle ==
    /\ bt_pc = "loop"
    /\ bt_mode \in {"info", "visi"}
    /\ bt_links \in BundleSites
    /\ bt_visited = {}
    /\ bt_queue = <<1>>
    /\ bt_combined = NoText
    /\ bt_seed_len = 0
    /\ bt_blocked = FALSE
    /\ bt_discovered = <<>>
    /\ bt_add = 0
    /\ bt_next = 0
    /\ bt_fetched = <<>>
    /\ bt_skipped = <<>>
    /\ GateIdle
    /\ CrawlIdle
    /\ RunIdle
    /\ JalurIdle
    /\ FetchIdle
    /\ UrlIdle
    /\ ExtractIdle
    /\ GeminiIdle
    /\ BrowserIdle
    /\ ValidateIdle
    /\ SiteIdle
    /\ TeardownIdle

\* the end of the loop body: break on the early stop, else back to the loop test
AfterIteration(text) ==
    bt_pc' = IF EarlyStop(bt_mode, text) THEN "truncate" ELSE "loop"

\* one iteration of the while loop, from the pop to the early stop
BundleIteration ==
    /\ bt_pc = "loop"
    /\ BundleLoopCondition
    /\ LET u == Head(bt_queue)
           rest == Tail(bt_queue)
       IN IF u \in bt_visited
          THEN /\ bt_queue' = rest
               /\ bt_skipped' = Append(bt_skipped, u)
               /\ bt_pc' = "loop"
               /\ UNCHANGED <<bt_visited, bt_combined, bt_seed_len, bt_blocked,
                              bt_discovered, bt_fetched>>
          ELSE \E r \in BundleFetches :
                 LET seen == bt_visited \cup {u}
                     text == Appended(bt_combined, r)
                     cands == bt_links[u]
                 IN /\ bt_visited' = seen
                    /\ bt_fetched' = Append(bt_fetched, u)
                    /\ bt_blocked' = (bt_blocked \/ BundleLooksBlocked(r))
                    /\ bt_seed_len' = IF Cardinality(seen) = 1 THEN r.len ELSE bt_seed_len
                    /\ bt_combined' = text
                    /\ bt_discovered' = Discover(bt_discovered, cands)
                    /\ bt_queue' = QueueUp(rest, seen, cands)
                    /\ AfterIteration(text)
                    /\ UNCHANGED bt_skipped
    /\ UNCHANGED <<bt_mode, bt_links, bt_add, bt_next, outsideBundle>>

\* the loop test fails: fall out of the while loop
BundleLoopExit ==
    /\ bt_pc = "loop"
    /\ ~BundleLoopCondition
    /\ bt_pc' = "truncate"
    /\ UNCHANGED <<bt_mode, bt_links, bt_visited, bt_queue, bt_combined, bt_seed_len,
                   bt_blocked, bt_discovered, bt_add, bt_next, bt_fetched, bt_skipped,
                   outsideBundle>>

\* combined = combined[:MAX_COMBINED_TEXT], then the test of the fallback pass
BundleTruncate ==
    /\ bt_pc = "truncate"
    /\ bt_combined' = Truncated(bt_combined)
    /\ IF NeedsFallback(bt_mode, Truncated(bt_combined), bt_discovered)
       THEN bt_pc' = "fallback" /\ bt_add' = 0 /\ bt_next' = 1
       ELSE bt_pc' = "returned" /\ UNCHANGED <<bt_add, bt_next>>
    /\ UNCHANGED <<bt_mode, bt_links, bt_visited, bt_queue, bt_seed_len, bt_blocked,
                   bt_discovered, bt_fetched, bt_skipped, outsideBundle>>

\* for u in discovered: if u in visited: continue
BundleFallbackSkip ==
    /\ bt_pc = "fallback"
    /\ bt_next <= Len(bt_discovered)
    /\ bt_discovered[bt_next] \in bt_visited
    /\ bt_next' = bt_next + 1
    /\ UNCHANGED <<bt_pc, bt_mode, bt_links, bt_visited, bt_queue, bt_combined, bt_seed_len,
                   bt_blocked, bt_discovered, bt_add, bt_fetched, bt_skipped, outsideBundle>>

\* one fetch of the fallback pass, up to its break
BundleFallbackFetch ==
    /\ bt_pc = "fallback"
    /\ bt_next <= Len(bt_discovered)
    /\ bt_discovered[bt_next] \notin bt_visited
    /\ \E r \in BundleFetches :
         LET text == Appended(bt_combined, r)
         IN /\ bt_fetched' = Append(bt_fetched, bt_discovered[bt_next])
            /\ bt_combined' = text
            /\ bt_add' = bt_add + 1
            /\ bt_next' = bt_next + 1
            /\ bt_pc' = IF bt_add + 1 >= FALLBACK_MAX_ADD \/ text.len >= VISI_STOP_LEN
                        THEN "fallback_done" ELSE "fallback"
    /\ UNCHANGED <<bt_mode, bt_links, bt_visited, bt_queue, bt_seed_len, bt_blocked,
                   bt_discovered, bt_skipped, outsideBundle>>

\* the for loop ran out of discovered URLs
BundleFallbackExhausted ==
    /\ bt_pc = "fallback"
    /\ bt_next > Len(bt_discovered)
    /\ bt_pc' = "fallback_done"
    /\ UNCHANGED <<bt_mode, bt_links, bt_visited, bt_queue, bt_combined, bt_seed_len,
                   bt_blocked, bt_discovered, bt_add, bt_next, bt_fetched, bt_skipped,
                   outsideBundle>>

\* combined = combined[:MAX_COMBINED_TEXT] after the fallback pass, and the return
BundleFallbackReturn ==
    /\ bt_pc = "fallback_done"
    /\ bt_combined' = Truncated(bt_combined)
    /\ bt_pc' = "returned"
    /\ UNCHANGED <<bt_mode, bt_links, bt_visited, bt_queue, bt_seed_len, bt_blocked,
                   bt_discovered, bt_add, bt_next, bt_fetched, bt_skipped, outsideBundle>>

NextBundle ==
    \/ BundleIteration
    \/ BundleLoopExit
    \/ BundleTruncate
    \/ BundleFallbackSkip
    \/ BundleFallbackFetch
    \/ BundleFallbackExhausted
    \/ BundleFallbackReturn

SpecBundle == InitBundle /\ [][NextBundle]_vars

\* ---------------------------------------------------------------------------
\* jalur_pendaftaran-scraper/fetcher.py: PlaywrightFetcher.fetch_html and
\* fetch_with_menu, one call after the other on one launched browser.  Every
\* await of a call either returns, raises playwright's TimeoutError (the
\* navigation only) or raises another error.
\* ---------------------------------------------------------------------------

\* the number of fetch calls made on the browser
MaxFetchCalls == 3

FetchMethods == {"fetch_html", "fetch_with_menu"}

InitTeardown ==
    /\ td_pc = "idle"
    /\ td_fn = "none"
    /\ td_ctx = 0
    /\ td_outcome = "none"
    /\ td_open = {}
    /\ td_made = 0
    /\ td_returns = <<>>
    /\ GateIdle
    /\ CrawlIdle
    /\ RunIdle
    /\ JalurIdle
    /\ FetchIdle
    /\ UrlIdle
    /\ ExtractIdle
    /\ GeminiIdle
    /\ BrowserIdle
    /\ ValidateIdle
    /\ SiteIdle
    /\ BundleIdle

\* the call is over, by a return or by an exception that leaves it
Returned(outcome) ==
    /\ td_returns' = Append(td_returns, [fn |-> td_fn, outcome |-> outcome, ctx |-> td_ctx,
                                            at |-> td_pc])
    /\ td_pc' = "idle"
    /\ td_fn' = "none"
    /\ td_ctx' = 0
    /\ td_outcome' = "none"

\* await ctx.close()
Closed(ctx) == {c \in td_open : c.id # ctx}

\* a caller awaits fetch_html(url) or fetch_with_menu(url)
TeardownCall ==
    /\ td_pc = "idle"
    /\ Len(td_returns) < MaxFetchCalls
    /\ td_fn' \in FetchMethods
    /\ td_pc' = "new_context"
    /\ UNCHANGED <<td_ctx, td_outcome, td_open, td_made, td_returns, outsideTeardown>>

\* ctx = await self._browser.new_context(ignore_https_errors=True)
NewContext ==
    /\ td_pc = "new_context"
    /\ td_made' = td_made + 1
    /\ td_ctx' = td_made + 1
    /\ td_open' = td_open \cup {[id |-> td_made + 1, fn |-> td_fn]}
    /\ td_pc' = "new_page"
    /\ UNCHANGED <<td_fn, td_outcome, td_returns, outsideTeardown>>

\* page = await ctx.new_page()
NewPage ==
    /\ td_pc = "new_page"
    /\ td_pc' = "goto"
    /\ UNCHANGED <<td_fn, td_ctx, td_outcome, td_open, td_made, td_returns, outsideTeardown>>

\* ctx.new_page() raises: in fetch_html inside the try, whose only except
\* clause is for the timeout; in fetch_with_menu before the try.  The error
\* leaves the call.
NewPageRaises ==
    /\ td_pc = "new_page"
    /\ Returned("raised")
    /\ UNCHANGED <<td_open, td_made, outsideTeardown>>

\* await page.goto(url, ...)
Goto ==
    /\ td_pc = "goto"
    /\ td_pc' = "read"
    /\ UNCHANGED <<td_fn, td_ctx, td_outcome, td_open, td_made, td_returns, outsideTeardown>>

\* page.goto raises the navigation timeout, fetch_html: except PWTimeout warns
\* and returns the failure result
HtmlGotoTimeout ==
    /\ td_pc = "goto"
    /\ td_fn = "fetch_html"
    /\ Returned("timeout")
    /\ UNCHANGED <<td_open, td_made, outsideTeardown>>

\* goto, wait_for_timeout or content raises another error in fetch_html: no
\* except clause takes it, it leaves the call
HtmlRaises ==
    /\ td_pc \in {"goto", "read"}
    /\ td_fn = "fetch_html"
    /\ Returned("raised")
    /\ UNCHANGED <<td_open, td_made, outsideTeardown>>

\* goto (timeout included), wait_for_timeout, extract_menu_links or content
\* raises in fetch_with_menu: except Exception, then the finally clause
MenuRaises ==
    /\ td_pc \in {"goto", "read"}
    /\ td_fn = "fetch_with_menu"
    /\ td_outcome' = "menu_failed"
    /\ td_pc' = "finally"
    /\ UNCHANGED <<td_fn, td_ctx, td_open, td_made, td_returns, outsideTeardown>>

\* fetch_html: wait_for_timeout, content, final_url
HtmlRead ==
    /\ td_pc = "read"
    /\ td_fn = "fetch_html"
    /\ td_pc' = "close"
    /\ UNCHANGED <<td_fn, td_ctx, td_outcome, td_open, td_made, td_returns, outsideTeardown>>

\* fetch_html: await ctx.close(); return FetchResult(ok=True, ...)
HtmlCloseReturn ==
    /\ td_pc = "close"
    /\ td_open' = Closed(td_ctx)
    /\ Returned("ok")
    /\ UNCHANGED <<td_made, outsideTeardown>>

\* fetch_with_menu: wait, menu links, content; return fr, menu_links
MenuRead ==
    /\ td_pc = "read"
    /\ td_fn = "fetch_with_menu"
    /\ td_outcome' = "ok"
    /\ td_pc' = "finally"
    /\ UNCHANGED <<td_fn, td_ctx, td_open, td_made, td_returns, outsideTeardown>>

\* fetch_with_menu: finally: await ctx.close(), then the return
MenuFinally ==
    /\ td_pc = "finally"
    /\ td_open' = Closed(td_ctx)
    /\ Returned(td_outcome)
    /\ UNCHANGED <<td_made, outsideTeardown>>

NextTeardown ==
    \/ TeardownCall
    \/ NewContext
    \/ NewPage
    \/ NewPageRaises
    \/ Goto
    \/ HtmlGotoTimeout
    \/ HtmlRaises
    \/ MenuRaises
    \/ HtmlRead
    \/ HtmlCloseReturn
    \/ MenuRead
    \/ MenuFinally

SpecTeardown == InitTeardown /\ [][NextTeardown]_vars





\* ------------------------------------------------------------------------
\* Properties of crawl_site
\* ------------------------------------------------------------------------

\* C1: in one crawl_site run the crawler fetches at most max_pages pages,
\* the origin page fetched for entry-point discovery included.
C1_FetchesWithinBudget == Len(fetched) <= max_pages

\* C2: no normalized URL is handed to the fetcher more than once in one run,
\* the menu-aware fetch of the origin counted, and every URL of the
\* visited-set is one that was fetched.
C2_NoUrlFetchedTwice ==
    /\ \A a, b \in DOMAIN fetched : a # b => fetched[a] # fetched[b]
    /\ visited \subseteq Range(fetched)

\* ------------------------------------------------------------------------
\* Properties of enforce_evidence_info
\* ------------------------------------------------------------------------

Gated == g_pc = "gated"

\* the evidence blob of the call
Blob == EvidenceBlob(g_text, g_links)

ContactFields ==
    {"email", "phone", "whatsapp", "facebook", "instagram", "twitter", "youtube"}

SocialFields == {"facebook", "instagram", "twitter", "youtube"}

\* C3: each of email, phone, whatsapp, facebook, instagram, twitter and
\* youtube returned by enforce_evidence_info is the sentinel "-" or a
\* case-insensitive literal substring of the evidence blob.
C3_OutputsOccurInBlob ==
    Gated => \A f \in ContactFields :
                g_out[f] = Sentinel \/ Contains(Lower(g_out[f]), Lower(Blob))

\* the proposed email as text: trimmed, a leading "mailto:" taken off
ProposedEmailText(u) ==
    IF StartsWithAt(Lower(u), 1, Lit_mailto)
    THEN Strip(SubSeq(u, Len(Lit_mailto) + 1, Len(u))) ELSE u

\* the first syntactically valid email of the blob, "-" when it has none
RecoveredEmail == IF FindFirstEmail(Blob) # <<>> THEN FindFirstEmail(Blob) ELSE Sentinel

\* C4: for a proposed email, the output is the proposal itself when it occurs
\* (case-insensitively) in the blob; when it does not occur the output is the
\* first syntactically valid email of the blob, and "-" only if the blob
\* holds no valid email.
C4_EmailRule ==
    (Gated /\ Strip(g_info.email) \notin {<<>>, Sentinel}) =>
        IF Contains(Lower(ProposedEmailText(Strip(g_info.email))), Lower(Blob))
        THEN g_out.email = ProposedEmailText(Strip(g_info.email))
        ELSE g_out.email = RecoveredEmail

\* the phone test: 9 to 15 digits that are contiguous in the digits-only blob
PassesPhoneTest(v) ==
    /\ Len(_digits_only(v)) >= 9
    /\ Len(_digits_only(v)) <= 15
    /\ Contains(_digits_only(v), _digits_only(Blob))

\* C5: every non-sentinel phone output passes the phone test; when the
\* proposed phone fails the test the output is the first phone-shaped token
\* of the blob with 9 to 15 digits, "-" when there is none.
C5_PhoneRule ==
    (Gated /\ Strip(g_info.phone) \notin {<<>>, Sentinel}) =>
        /\ g_out.phone # Sentinel => PassesPhoneTest(g_out.phone)
        /\ ~PassesPhoneTest(g_info.phone) =>
              g_out.phone = FirstValidPhone(RE_PHONE_findall(Blob))

\* C6: a non-sentinel whatsapp output needs a messaging keyword or a deeplink
\* in the evidence, and is either a deeplink that occurs in the evidence or
\* a number that passes the phone test.
C6_WhatsappRule ==
    (Gated /\ g_out.whatsapp # Sentinel) =>
        /\ wa_has_evidence(Blob)
        /\ \/ RE_WA_URL_search(g_out.whatsapp)
              /\ Contains(Lower(g_out.whatsapp), Lower(Blob))
           \/ PassesPhoneTest(g_out.whatsapp)

\* the host of an absolute URL, in lower case
HostOf(u) == Lower(urlparse(u).netloc)

\* u is an absolute http(s) URL whose host is one of the domains or a
\* subdomain of one
IsUrlOfDomain(u, domains) ==
    /\ StartsWithAt(u, 1, Lit_http) \/ StartsWithAt(u, 1, Lit_https)
    /\ \E d \in domains : HostOf(u) = d \/ EndsWith(HostOf(u), <<".">> \o d)

\* C7: for each of facebook, instagram, twitter, youtube, a non-sentinel
\* output is an absolute http(s) URL of one of that network's domains that
\* occurs in the evidence, and an output that is not the proposal comes from
\* the outbound-link list.
C7_SocialRule ==
    Gated => \A n \in SocialFields :
        g_out[n] # Sentinel =>
            /\ IsUrlOfDomain(g_out[n], social_domains[n])
            /\ Contains(Lower(g_out[n]), Lower(Blob))
            /\ g_out[n] # Strip(g_info[n]) => g_out[n] \in Range(g_links)

\* ------------------------------------------------------------------------
\* Properties of the orchestrated run
\* ------------------------------------------------------------------------

\* C8: every contact or social value of an accumulated row is what the
\* Evidence Gate returns for the Oracle's proposal and the evidence of that
\* seed, the rows whose Oracle call used the browse fallback included.
C8_RowsPassedTheGate ==
    \A r \in Range(rows) : \A f \in ContactFields :
        r.info[f] = enforce_evidence_info(r.proposed, r.ev_text, r.ev_links)[f]

\* C9: in a run, a seed is skipped, with no fetch and no Oracle call for it,
\* exactly if its entry in the checkpoint store as loaded at the start of the
\* run is "ok"; a seed whose entry is absent or an error status is processed.
C9_ResumeSkip ==
    \A k \in SeedIds :
        /\ decision[k] = "skip" =>
              /\ DictGet(ckpt_at_start, Key(k)) = "ok"
              /\ fetch_calls[k] = 0
              /\ oracle_calls[k] = 0
        /\ decision[k] = "process" => DictGet(ckpt_at_start, Key(k)) # "ok"
        /\ (fetch_calls[k] > 0 \/ oracle_calls[k] > 0) => decision[k] = "process"

\* A second run that skipped a seed recorded "ok" and fetched again for a
\* seed recorded with an error status.
C9_Witness ==
    /\ run_no = 2
    /\ \E k, m \in SeedIds :
          /\ decision[k] = "skip"
          /\ DictGet(ckpt_at_start, Key(m)) = "error"
          /\ decision[m] = "process"
          /\ fetch_calls[m] > 0

\* the ids of the rows of an output file
RowIds(file) == {file[j].id : j \in DOMAIN file}

\* C10: when the first run is interrupted between two seeds and the second
\* run finishes with every seed marked done, every seed was completed exactly
\* once over the two runs and the output the second run wrote holds the rows
\* of all seeds, as one uninterrupted run's output does.
C10_ResumeEquivalence ==
    (/\ r_pc = "finished"
     /\ run_no = 2
     /\ killed_at = <<"check">>
     /\ \A k \in SeedIds : DictGet(state_file, Key(k)) = "ok") =>
        /\ \A k \in SeedIds : completed[k] = 1
        /\ RowIds(final_file) = SeedIds

\* C11: when the processing of one seed raises, an error status is recorded
\* for that seed and the loop goes on with the remaining seeds: no run ends
\* on a seed's exception, and every seed the loop has processed and left
\* behind has a status in the checkpoint.
C11_FailureIsolation ==
    /\ \A j \in DOMAIN killed_at : killed_at[j] # "exception"
    /\ \A k \in SeedIds :
          (r_pc \in {"check", "finished"} /\ k < seed_i /\ decision[k] = "process")
              => DictGet(state_done, Key(k)) \in {"ok", "error"}

\* C12: when the loop is back at its head after a seed was processed, with
\* success or with an error, the checkpoint file holds that seed's status and
\* the incremental output holds all rows accumulated so far.
C12_PersistAfterEverySeed ==
    (r_pc = "check" /\ seed_i > 1 /\ decision[seed_i - 1] = "process") =>
        /\ DictGet(state_file, Key(seed_i - 1)) \in {"ok", "error"}
        /\ rows # <<>> => partial_file = rows

\* the rows whose task is inside async with sem
InsideRows == {k \in SheetRows : j_pc[k] \in {"crawl", "validate"}}

\* the candidate numbers of the records of row k, in the order written
CandsLogged(k) ==
    LET own == SelectSeq(all_validated, LAMBDA r : r.row = k)
    IN  [n \in 1..Len(own) |-> own[n].cand]

\* C13: at most max(1, concurrency) rows are inside discovery, validation or
\* extraction at the same time, and the candidates of one row are handled one
\* at a time in list order.
C13_BoundedConcurrency ==
    j_main # "idle" =>
        /\ Cardinality(InsideRows) <= Max({1, concurrency})
        /\ \A k \in SheetRows :
              LET log == CandsLogged(k)
              IN  /\ \A n \in 1..(Len(log) - 1) : log[n] <= log[n + 1]
                  /\ \A n \in 1..Len(log) : log[n] <= j_pos[k]
                  /\ \A c \in 1..j_pos[k] : \E n \in 1..Len(log) : log[n] = c

\* Two rows are inside under concurrency 2 while the third waits, and one of
\* them is past its second candidate.
C13_Witness ==
    /\ j_main = "gather"
    /\ concurrency = 2
    /\ Cardinality(InsideRows) = 2
    /\ \E k \in SheetRows : j_pc[k] = "created"
    /\ \E k \in InsideRows : j_pos[k] = 2

\* ------------------------------------------------------------------------
\* Properties of _fetch_with_retry and of the blocked-page heuristic
\* ------------------------------------------------------------------------

FetchReturned == f_pc \in {"returned", "bundled"}

ChallengeSeen(n) ==
    /\ Contains(Lit_just_a_moment, Lower(PageHtml(f_pages[n])))
    /\ Len(Strip(f_results[n].text)) < BLOCKED_TEXT_MIN

\* C15: a fetch whose page HTML contains "just a moment" and whose extracted
\* text is near-empty is classified blocked, is followed by another attempt
\* while attempts remain, and sets the blocked flag when it is the result the
\* bundle is left with.
C15_BlockedPageDetection ==
    \A n \in 1..Len(f_results) :
        ChallengeSeen(n) =>
            /\ _looks_blocked(f_results[n])
            /\ (FetchReturned /\ n < f_tries) => Len(f_results) > n
            /\ (f_pc = "bundled" /\ n = Len(f_results)) => blocked_flag

\* ------------------------------------------------------------------------
\* Properties of URL canonicalisation and of same_site
\* ------------------------------------------------------------------------

UrlNormalized == url_pc \in {"normalized", "renormalized", "compared", "visited"}

\* C16: normalize_url of either scraper and norm_url are idempotent: the
\* canonical form of a URL is its own canonical form.
C16_Idempotent ==
    url_pc \in {"renormalized", "compared", "visited"} => url_na2 = url_na

\* the name=value pairs of a URL's query that are not tracking parameters
KeptPairsOf(u) == SelectSeq(parse_qsl(urlparse(Strip(u)).query), IsKeptPair)

\* out is u without its fragment and without its tracking parameters, every
\* other parameter kept with its value
StripsTracking(u, out) ==
    /\ FindChar(out, "#", 1) = 0
    /\ urlparse(out).scheme = urlparse(Strip(u)).scheme
    /\ urlparse(out).netloc = urlparse(Strip(u)).netloc
    /\ urlparse(out).path = urlparse(Strip(u)).path
    /\ parse_qsl(urlparse(out).query) = KeptPairsOf(u)

\* C17: normalize_url of either scraper removes the fragment and exactly the
\* tracking parameters (keys compared case-insensitively), and maps
\* "https://x.ac.id/a?b=1&utm_source=y#frag" to "https://x.ac.id/a?b=1".
C17_StripsTrackingParams ==
    UrlNormalized =>
        /\ StripsTracking(url_a, url_na.jalur)
        /\ StripsTracking(url_a, url_na.info)
        /\ url_a = U_example =>
              url_na.jalur = U_example_clean /\ url_na.info = U_example_clean

DifferByTrailingSlash(u, v) == u # <<>> /\ v # <<>> /\ (v = u \o <<"/">> \/ u = v \o <<"/">>)

\* C18: two URLs that differ only by a trailing slash have one canonical
\* form, and with both queued the page is fetched once.
C18_TrailingSlashDedup ==
    (UrlNormalized /\ DifferByTrailingSlash(url_a, url_b)) =>
        /\ url_na.jalur = url_nb.jalur
        /\ url_na.info = url_nb.info
        /\ url_pc = "visited" =>
              Len(url_fetched.jalur) = 1 /\ Len(url_fetched.info) = 1

\* the host of a URL with the port dropped and a leading "www." stripped
BareHost(u) ==
    LET h == Lower(SplitOn(urlparse(u).netloc, ":")[1])
    IN  IF StartsWithAt(h, 1, Lit_www_dot) THEN SubSeq(h, 5, Len(h)) ELSE h

\* equal hosts, or one a dot-delimited subdomain of the other
HostsRelated(g, h) ==
    /\ g # <<>>
    /\ h # <<>>
    /\ \/ g = h
       \/ EndsWith(g, <<".">> \o h)
       \/ EndsWith(h, <<".">> \o g)

\* C19: same_site is true whenever the two hosts are equal or one is a
\* dot-delimited subdomain of the other, a leading "www." stripped and
\* ports ignored.
C19_SameSiteAcceptsFamily ==
    (url_pc \in {"compared", "visited"}
        /\ HostsRelated(BareHost(url_a), BareHost(url_b))) =>
        url_same.jalur /\ url_same.info

\* C20: same_site is false whenever neither host equals the other nor is a
\* dot-delimited subdomain of it, hosts that merely end with the other
\* host's characters included.
C20_SameSiteRejectsUnrelated ==
    (url_pc \in {"compared", "visited"}
        /\ ~HostsRelated(BareHost(url_a), BareHost(url_b))) =>
        ~url_same.jalur /\ ~url_same.info

\* ------------------------------------------------------------------------
\* Properties of the candidate list, of the entry points and of the
\* traversal
\* ------------------------------------------------------------------------

\* a discovered link that STEP 3 takes for a candidate
IsEligible(l) ==
    /\ same_site_of[l.url, start]
    /\ ~hard_reject_of[l.url]
    /\ is_candidate_of[l.url, l.hint]

\* the returned candidates with the given url, kind and hint prefix
BestWith(url, kind, prefix) ==
    {k \in 1..Len(best) :
        /\ best[k].url = url
        /\ best[k].kind = kind
        /\ Take(best[k].context_hint, HINT_KEY_LEN) = prefix}

\* C21: of the discovered links with one (url, kind), the returned list holds
\* one CandidateLink per distinct hint prefix of HINT_KEY_LEN characters:
\* one for two links whose prefixes are equal, two when they differ,
\* whether the links stood on one page or on two.
C21_CandidateDedup ==
    c_pc = "exhausted" =>
        \A i \in 1..Len(discovered) :
            IsEligible(discovered[i]) =>
                Cardinality(BestWith(discovered[i].url, discovered[i].kind,
                                     Take(discovered[i].hint, HINT_KEY_LEN))) = 1

\* C22: a step out of seeded either ends the crawl at once, with an empty
\* candidate list and the origin as the only fetch, or starts the expansion
\* with a queue of roots each of which is same-site and an entry-point
\* match; so a menu without such a link leads straight to exhausted.
C22_AbortWithoutEntryPoint ==
    [][c_pc = "seeded" =>
          /\ c_pc' \in {"exhausted", "expanding"}
          /\ fetched' = <<start>>
          /\ c_pc' = "exhausted" =>
                best' = <<>> /\ candidates' = <<>> /\ q' = <<>> /\ visited' = {}
          /\ c_pc' = "expanding" =>
                /\ q' # <<>>
                /\ \A k \in 1..Len(q') :
                      same_site_of[q'[k][1], start] /\ is_admission_entry_of[q'[k][1]]]_vars

\* The crawl is over after the origin fetch alone: nothing visited, nothing
\* queued, nothing returned.
C22_Witness ==
    /\ c_pc = "exhausted"
    /\ fetched = <<start>>
    /\ visited = {}
    /\ q = <<>>
    /\ best = <<>>

\* the URLs in play that contain a hard-reject keyword
RejectedUrls ==
    {u \in Urls : \E k \in HARD_REJECT_KEYWORDS : Contains(k, Lower(u))}

\* C23: no URL that contains a hard-reject keyword is fetched by the BFS
\* loop, queued as a continuation (depth of 1 or more) or held in the
\* candidate list, whatever its hint.
C23_HardReject ==
    /\ \A k \in 2..Len(fetched) : fetched[k] \notin RejectedUrls
    /\ visited \cap RejectedUrls = {}
    /\ \A k \in 1..Len(q) : q[k][2] >= 1 => q[k][1] \notin RejectedUrls
    /\ \A k \in 1..Len(candidates) : candidates[k].url \notin RejectedUrls
    /\ \A k \in 1..Len(best) : best[k].url \notin RejectedUrls

\* A visited page linked to a same-site URL with a hard-reject keyword under
\* a hint that names an admission track, next to a link that was returned.
C23_Witness ==
    /\ c_pc = "exhausted"
    /\ best # <<>>
    /\ \E i \in 1..Len(discovered) :
          /\ discovered[i].url \in RejectedUrls
          /\ same_site_of[discovered[i].url, start]
          /\ is_candidate_of[discovered[i].url, discovered[i].hint]

\* a queue entry the loop would visit if it were popped now
IsWaiting(entry) == ~SkipsPopped(entry[1], entry[2])

\* C28: the visit that uses up the page budget takes a URL whose priority
\* (time-sensitive marker, then admission-track name, then entry-point
\* marker, then anything else) is at least that of every URL left waiting in
\* the queue.
C28_TraversalPriority ==
    [][(c_pc = "expanding" /\ visited' # visited /\ Cardinality(visited') = max_pages) =>
          \A k \in 2..Len(q) :
              IsWaiting(q[k]) => _priority_of[Head(q)[1]] >= _priority_of[q[k][1]]]_vars

\* ------------------------------------------------------------------------
\* Properties of extract_links_and_assets
\* ------------------------------------------------------------------------

\* a hint with a noise keyword and without a topical match
IsVetoed(hint) == _is_noise(hint) /\ ~JALUR_WORD_RE_search(hint)

\* C29: no link of the output, whatever element it came from, has a hint
\* with a noise keyword and without a topical match; and an anchor whose
\* hint has a topical match is in the output.
C29_NoiseVeto ==
    x_pc = "extracted" =>
        /\ \A k \in 1..Len(x_out) : ~IsVetoed(x_out[k].hint)
        /\ \A k \in 1..Len(x_page.anchors) :
              LET a == x_page.anchors[k]
                  hint == Strip(a.text \o <<" ">> \o a.href)
              IN  JALUR_WORD_RE_search(hint) =>
                      \E j \in 1..Len(x_out) : x_out[j].url = normalize_url_of[a.href]

\* C30 -- backoff schedule of _fetch_with_retry: every wait is followed by a
\* further attempt (so none follows the final attempt of the budget), and the
\* wait after failed attempt number k is exactly base_sleep * k.
C30_BackoffSchedule ==
    \A n \in 1..Len(f_sleeps) :
        /\ f_sleeps[n][2] = f_base_sleep * f_sleeps[n][1]
        /\ f_sleeps[n][1] < f_tries
        /\ FetchReturned => Len(f_results) > f_sleeps[n][1]

\* A rate-limit rejection or a transient server failure.
IsRateLimitOrTransient(call) ==
    \/ call[3] = "ClientError" /\ IsRateLimited([msg |-> call[4]])
    \/ call[3] = "ServerError"

\* C26 -- Oracle retry and fallback of extract_json and extract_json_browse:
\* the n-th call goes to model ((n-1) div max_retries) + 1 as its attempt
\* ((n-1) mod max_retries) + 1, so a model is left only after max_retries
\* attempts on it; a rate-limited or transiently failed call that is not the
\* last of the budget is followed by a further call; at most
\* len(models) * max_retries calls are made; and when every call failed the
\* function returns {} with the usage totals.
C26_RetryAndFallback ==
    gm_pc # "idle" =>
        /\ Len(gm_calls) <= Len(gm_models) * gm_max_retries
        /\ \A n \in 1..Len(gm_calls) :
              /\ gm_calls[n][1] = ((n - 1) \div gm_max_retries) + 1
              /\ gm_calls[n][2] = ((n - 1) % gm_max_retries) + 1
              /\ gm_calls[n][1] \in 1..Len(gm_models)
        /\ gm_pc = "returned" =>
              /\ gm_ret \in {"empty", "object"}
              /\ \A n \in 1..Len(gm_calls) :
                    IsRateLimitOrTransient(gm_calls[n]) =>
                        \/ n < Len(gm_calls)
                        \/ /\ n = Len(gm_models) * gm_max_retries
                           /\ gm_ret = "empty"
                           /\ gm_usage = 0

C26_Witness ==
    /\ gm_pc = "returned"
    /\ gm_max_retries = MaxRetries
    /\ Len(gm_calls) = Len(gm_models) * MaxRetries
    /\ \A n \in 1..Len(gm_calls) : IsRateLimitOrTransient(gm_calls[n])
    /\ \E n \in 1..Len(gm_calls) : gm_calls[n][3] = "ClientError"
    /\ \E n \in 1..Len(gm_calls) : gm_calls[n][3] = "ServerError"
    /\ gm_calls[Len(gm_calls)][1] = Len(gm_models)
    /\ gm_ret = "empty"

\* C25 -- browsing-context isolation: two fetches made for different seeds
\* never use the same browsing context, and no fetch runs in a context that
\* holds cookies or storage written while another seed was processed.
C25_ContextIsolation ==
    \A m, n \in 1..Len(b_fetches) :
        /\ b_fetches[m].seed # b_fetches[n].seed =>
              b_fetches[m].context # b_fetches[n].context
        /\ b_fetches[n].visible \subseteq {b_fetches[n].seed}

\* The validation calls that returned text which is no JSON object.
MalformedCalls ==
    {n \in 1..Len(v_oracle) :
        /\ v_oracle[n].purpose = "validate"
        /\ ~v_oracle[n].raised
        /\ json_loads(v_oracle[n].raw) # "object"}

RecordsOf(cand) == {m \in 1..Len(v_validated) : v_validated[m].cand = cand}

ExtractionsOf(cand) ==
    {m \in 1..Len(v_oracle) : v_oracle[m].purpose = "extract" /\ v_oracle[m].cand = cand}

\* C24 -- Oracle malformed output: when the validation Oracle returned text
\* that is not a JSON object, the candidate has exactly one record in the
\* audit list and its verdict is "uncertain", no extraction call is made for
\* the candidate, the loop has gone on to the next candidate, and the save
\* writes the audit list.
C24_MalformedOutput ==
    \A n \in MalformedCalls :
        LET cand == v_oracle[n].cand
        IN  /\ Cardinality(RecordsOf(cand)) = 1
            /\ \A m \in RecordsOf(cand) : v_validated[m].verdict = "uncertain"
            /\ ExtractionsOf(cand) = {}
            /\ v_pos >= cand
            /\ v_pc \in {"next", "fetched", "extract", "done", "saved"}
            /\ v_pc = "saved" => \E k \in 1..Len(v_files) : v_files[k] = "validated_links.json"

C24_Witness ==
    /\ v_pc = "saved"
    /\ Len(v_cands) = 2
    /\ \E n \in MalformedCalls : v_oracle[n].cand = 1 /\ v_oracle[n].raw = Raw_prefixed
    /\ ExtractionsOf(2) # {}
    /\ v_validated[1].verdict = "uncertain"

\* C27 -- validate-only and verdict gating: every extraction call follows a
\* validation of the same candidate that gave "valid", whose record is in the
\* audit list; and with the validate-only flag there is no extraction call,
\* no extracted item and no extracted-items artifact.
C27_VerdictGating ==
    /\ \A n \in 1..Len(v_oracle) :
          v_oracle[n].purpose = "extract" =>
              /\ \E m \in 1..(n - 1) :
                    /\ v_oracle[m].purpose = "validate"
                    /\ v_oracle[m].cand = v_oracle[n].cand
                    /\ ~v_oracle[m].raised
                    /\ VerdictOf(v_oracle[m].raw) = "valid"
              /\ \E m \in RecordsOf(v_oracle[n].cand) : v_validated[m].verdict = "valid"
    /\ v_pc = "extract" =>
          \E m \in RecordsOf(VCand) : v_validated[m].verdict = "valid"
    /\ v_validate_only =>
          /\ \A n \in 1..Len(v_oracle) : v_oracle[n].purpose # "extract"
          /\ v_pc # "extract"
          /\ v_items = <<>>
          /\ \A k \in 1..Len(v_files) : v_files[k] # "jalur_items_extracted.json"

C27_Witness ==
    /\ v_pc = "saved"
    /\ v_validate_only
    /\ Len(v_cands) = 2
    /\ \A m \in 1..Len(v_validated) : v_validated[m].verdict = "valid"
    /\ Len(v_validated) = 2
    /\ Len(v_oracle) = 2
    /\ Len(v_files) = 3

\* the depths held in a deque, front to back
DepthsIn(queue) == [k \in 1..Len(queue) |-> queue[k][2]]

NonDecreasing(ds) == \A k \in 1..(Len(ds) - 1) : ds[k] <= ds[k + 1]

\* The depths of the successively fetched pages are non-decreasing, the
\* depths held in the queue are non-decreasing from front to back and differ
\* by at most 1, and no queued depth is below the depth of a fetched page.
DepthsInOrder ==
    c_pc \in {"expanding", "exhausted"} =>
        /\ NonDecreasing(fetch_depths)
        /\ NonDecreasing(DepthsIn(q))
        /\ q # <<>> => q[Len(q)][2] - q[1][2] <= 1
        /\ (q # <<>> /\ fetch_depths # <<>>) =>
              fetch_depths[Len(fetch_depths)] <= q[1][2]

\* One iteration takes the entry at the front of the queue, fetches that
\* page if any, and adds entries at the back only.
FifoStep ==
    (c_pc = "expanding" /\ q' # q) =>
        /\ Len(q') >= Len(q) - 1
        /\ SubSeq(q', 1, Len(q) - 1) = Tail(q)
        /\ fetched' # fetched =>
              /\ fetched' = Append(fetched, Head(q)[1])
              /\ fetch_depths' = Append(fetch_depths, Head(q)[2])

\* C31 -- BFS order: within one crawl_site run pages are fetched in FIFO
\* order of enqueueing, so the depths of successively fetched pages are
\* non-decreasing and the depths held in the queue are non-decreasing from
\* front to back and differ by at most 1.
C31_BfsOrder == []DepthsInOrder /\ [][FifoStep]_vars

C31_Witness ==
    /\ c_pc = "expanding"
    /\ Len(fetch_depths) >= 3
    /\ fetch_depths[1] = 0
    /\ fetch_depths[2] = 0
    /\ fetch_depths[Len(fetch_depths)] = 1
    /\ Len(q) >= 2
    /\ q[1][2] = 1
    /\ q[Len(q)][2] = 2

\* No page is fetched by the BFS loop at a depth above MAX_ADMISSION_DEPTH.
FetchDepthsBounded ==
    \A k \in 1..Len(fetch_depths) : fetch_depths[k] \in 0..MAX_ADMISSION_DEPTH

\* STEP 1 enqueues at depth 0; an iteration enqueues at the depth of the page
\* it popped plus 1.
EnqueueDepths ==
    /\ c_pc = "seeded" => \A k \in 1..Len(q') : q'[k][2] = 0
    /\ (c_pc = "expanding" /\ q' # q) =>
          \A k \in Len(q)..Len(q') : q'[k][2] = Head(q)[2] + 1

\* C32 -- depth bound: entry points are enqueued at depth 0, every
\* continuation is enqueued at its source page's depth + 1, and no page is
\* fetched during BFS expansion at a depth greater than MAX_ADMISSION_DEPTH.
C32_DepthBound == []FetchDepthsBounded /\ [][EnqueueDepths]_vars

C32_Witness ==
    /\ c_pc = "exhausted"
    /\ max_pages = MaxSitePages
    /\ Len(fetch_depths) = MAX_ADMISSION_DEPTH + 1
    /\ fetch_depths[Len(fetch_depths)] = MAX_ADMISSION_DEPTH
    /\ q = <<>>
    /\ Page_d \notin visited
    /\ \E i \in 1..Len(discovered) : discovered[i].url = Page_d

\* C33 -- termination: on every site, cycles included, and for every
\* max_pages, crawl_site eventually reaches the exhausted state, with the
\* queue empty or the page budget reached, provided each fetch returns.
C33_Termination ==
    <>(c_pc = "exhausted" /\ (q = <<>> \/ Cardinality(visited) >= max_pages))

\* the crawl of a ring ended by the budget with entries still queued
C33_Witness ==
    /\ c_pc = "exhausted"
    /\ q # <<>>
    /\ Cardinality(visited) = max_pages
    /\ max_pages >= 3
    /\ \E u \in visited : \E k \in 1..Len(site.links[u]) : site.links[u][k] \in visited

\* Is u on the site of the crawl's origin: the hosts are equal or one is a
\* dot-delimited subdomain of the other, ports and a leading "www." aside.
OnOriginSite(u) == HostsRelated(BareHost(u), BareHost(start))

\* C34 -- the crawler never leaves the site: every URL fetched during BFS
\* expansion (so every continuation that is later fetched) and every
\* candidate returned by crawl_site is same-site with the origin URL.
C34_StaysOnSite ==
    /\ \A k \in 2..Len(fetched) : OnOriginSite(fetched[k])
    /\ \A u \in visited : OnOriginSite(u)
    /\ \A k \in 1..Len(best) : OnOriginSite(best[k].url)

C34_Witness ==
    /\ c_pc = "exhausted"
    /\ Len(fetched) = 3
    /\ best # <<>>
    /\ \E k \in 1..Len(best) : best[k].url = Href_jadwal
    /\ \E i \in 1..Len(discovered) :
          /\ discovered[i].url = Href_offsite
          /\ is_candidate_of[discovered[i].url, discovered[i].hint]


\* ---------------------------------------------------------------------------
\* Properties of bundle_text
\* ---------------------------------------------------------------------------

\* the distinct URLs one bundle_text call has fetched so far
DistinctFetched == Range(bt_fetched)

\* C35: in one bundle_text call, in either mode, the number of distinct URLs
\* fetched never exceeds MAX_PAGES_VISIT, the fetches of the thin-text fallback
\* pass included, and the returned combined text has at most MAX_COMBINED_TEXT
\* characters.
C35_BundleBudget ==
    /\ Cardinality(DistinctFetched) <= MAX_PAGES_VISIT
    /\ (bt_pc = "returned" => bt_combined.len <= MAX_COMBINED_TEXT)

\* the part of C35 that the fallback pass leaves alone: the while loop alone
\* keeps to the page budget, and the returned text keeps to the text budget
LoopKeepsBudget ==
    /\ Cardinality(bt_visited) <= MAX_PAGES_VISIT
    /\ (bt_pc = "returned" => bt_combined.len <= MAX_COMBINED_TEXT)

\* a "visi" call returned after the loop used its whole page budget and the
\* fallback pass fetched its five pages on top
FallbackOverBudget ==
    /\ bt_pc = "returned"
    /\ bt_mode = "visi"
    /\ Cardinality(bt_visited) = MAX_PAGES_VISIT
    /\ bt_add = FALLBACK_MAX_ADD
    /\ Cardinality(DistinctFetched) = MAX_PAGES_VISIT + FALLBACK_MAX_ADD

\* a call returned a text cut to exactly the text budget
TextCutToBudget ==
    /\ bt_pc = "returned"
    /\ bt_combined.len = MAX_COMBINED_TEXT
    /\ Cardinality(bt_visited) > 1

\* no URL twice in the sequence
NoDuplicates(seq) == \A i, j \in 1..Len(seq) : seq[i] = seq[j] => i = j

\* the queue at the start of an iteration: no duplicate, nothing visited
QueueIsFresh ==
    bt_pc = "loop" => NoDuplicates(bt_queue) /\ Range(bt_queue) \cap bt_visited = {}

\* an iteration of the while loop adds exactly one URL to visited
VisitedGrowsByOne ==
    (bt_pc = "loop" /\ bt_queue' # bt_queue)
        => /\ Cardinality(bt_visited') = Cardinality(bt_visited) + 1
           /\ bt_visited' = bt_visited \cup {Head(bt_queue)}

\* C40: at the start of every iteration of the loop of bundle_text the queue
\* holds no duplicate URL and no URL of the visited-set, so the popped URL is
\* never skipped as already visited and visited grows by exactly one per
\* iteration.
C40_QueueInvariant ==
    /\ [](QueueIsFresh /\ bt_skipped = <<>>)
    /\ [][VisitedGrowsByOne]_vars

\* an iteration starts on a mesh page whose candidates were all offered before:
\* some are visited, some wait in the queue, and the page links to itself
C40_Witness ==
    /\ bt_pc = "loop"
    /\ BundleLoopCondition
    /\ Cardinality(bt_visited) >= 3
    /\ Len(bt_queue) >= 2
    /\ \E x \in Range(bt_links[Head(bt_queue)]) : x \in bt_visited
    /\ \E x \in Range(bt_links[Head(bt_queue)]) : x \in Range(Tail(bt_queue))
    /\ Head(bt_queue) \in Range(bt_links[Head(bt_queue)])


\* the candidates whose pass through the body of the validation loop is over
ProcessedCands == 1..v_pos

\* C38 -- one verdict per candidate: every candidate the loop has processed
\* has exactly one record in the audit list of validated links, also when its
\* fetch failed, when the Oracle answer was malformed and when the extraction
\* that follows a "valid" verdict raised.
C38_OneVerdict ==
    \A cand \in ProcessedCands : Cardinality(RecordsOf(cand)) = 1

\* every processed candidate has a record, and only an extraction that raised
\* gives a candidate a second one, "uncertain" after "valid"
AtMostTwoVerdicts ==
    \A cand \in ProcessedCands :
        \/ Cardinality(RecordsOf(cand)) = 1
        \/ /\ Cardinality(RecordsOf(cand)) = 2
           /\ \E n \in ExtractionsOf(cand) : v_oracle[n].raised
           /\ \E m \in RecordsOf(cand) :
                 /\ m + 1 \in RecordsOf(cand)
                 /\ v_validated[m].verdict = "valid"
                 /\ v_validated[m + 1].verdict = "uncertain"

\* a saved run whose first candidate was judged valid and whose extraction
\* raised: two records for it, one for the second candidate
TwoVerdictsSaved ==
    /\ v_pc = "saved"
    /\ Len(v_cands) = 2
    /\ Cardinality(RecordsOf(1)) = 2
    /\ Cardinality(RecordsOf(2)) = 1
    /\ Len(v_validated) = 3


\* C39 -- enforce_evidence_info is idempotent for fixed evidence: gating the
\* gated field set again, with the same text and the same links, gives the
\* gated field set back.
C39_GateIdempotent ==
    g_pc = "gated" => enforce_evidence_info(g_out, g_text, g_links) = g_out


\* the gate replaced a proposed phone number that is not in the evidence by
\* the number of the page, rewritten to digits, and the gated set differs from
\* the proposed one
C39_Witness ==
    /\ g_pc = "gated"
    /\ g_text = Text_contact
    /\ g_info.phone = Phone_fake
    /\ g_out.phone = Phone_seen
    /\ g_out # g_info


\* the seeds whose rows are in an output file on disk, the incremental one or
\* the final one
PersistedRowIds == RowIds(partial_file) \cup RowIds(final_file)

\* the seeds the checkpoint file marks "ok"
CheckpointedOk == {k \in SeedIds : DictGet(state_file, Key(k)) = "ok"}

\* C37 -- crash consistency of the resumable state: wherever the process may
\* be interrupted, and after it was, every seed whose status in the checkpoint
\* file is "ok" has its row in the persisted output, so a resumed run that
\* skips the seed does not lose its result.
C37_CrashConsistency ==
    r_pc # "idle" => CheckpointedOk \subseteq PersistedRowIds

\* what run_all does keep: in its first run, back at the head of the loop,
\* the rows of all seeds marked "ok" are in the incremental output
ConsistentAtLoopHead ==
    (script = "run_all" /\ run_no = 1 /\ r_pc = "check")
        => CheckpointedOk \subseteq RowIds(partial_file)

\* run_all was interrupted between the dump of the checkpoint and the autosave
OkWithoutRow ==
    /\ r_pc = "dead"
    /\ script = "run_all"
    /\ killed_at = <<"autosave">>
    /\ CheckpointedOk # {}
    /\ ~(CheckpointedOk \subseteq PersistedRowIds)

\* a resumed run_all finished: the seed the first run completed is skipped and
\* its row is in no output the second run wrote
ResumedRunLostRow ==
    /\ r_pc = "finished"
    /\ run_no = 2
    /\ \E k \in CheckpointedOk : decision[k] = "skip" /\ k \notin PersistedRowIds


\* ---------------------------------------------------------------------------
\* Properties of the async fetcher's context handling
\* ---------------------------------------------------------------------------

\* C36 -- context teardown: every browsing context a fetch call of the async
\* fetcher opened is closed by the time the call returns or raises, on
\* success, on a navigation timeout and on any other error: no context is
\* open whenever no fetch is in progress.
C36_ContextTeardown ==
    td_pc = "idle" => td_open = {}

\* the calls that ended without closing the context they had opened
LeakingReturns ==
    {n \in 1..Len(td_returns) :
        \/ td_returns[n].fn = "fetch_html"
              /\ td_returns[n].outcome \in {"timeout", "raised"}
        \/ td_returns[n].fn = "fetch_with_menu" /\ td_returns[n].outcome = "raised"}

\* what the two methods do keep: between two calls the open contexts are
\* exactly those of the calls that ended on a timeout or an error of
\* fetch_html or on an error before the try of fetch_with_menu; a call that
\* succeeded, and a fetch_with_menu whose page failed, left none
OnlyFailuresLeak ==
    td_pc = "idle" =>
        {c.id : c \in td_open} = {td_returns[n].ctx : n \in LeakingReturns}

\* three fetch_html calls timed out: three contexts are open with no fetch in
\* progress
ContextsLeftOpen ==
    /\ td_pc = "idle"
    /\ Len(td_returns) = MaxFetchCalls
    /\ \A n \in 1..Len(td_returns) :
          td_returns[n].fn = "fetch_html" /\ td_returns[n].outcome = "timeout"
    /\ Cardinality(td_open) = MaxFetchCalls

====
